---- MODULE Spec2Model ----
(***************************************************************************)
(* TradeBot (subbuk987/TradeBot): the detection-and-decision pipeline.     *)
(*                                                                         *)
(*   GuardSpec  bot/decision.py evaluate_trade and the four guard          *)
(*              functions of bot/filters, one step per gate                *)
(*   AggSpec    bot/quote_engine.py aggregate_quotes: the fan-out of       *)
(*              get_quote futures and the join over as_completed           *)
(*   ScanSpec   bot/arbitrage_scanner.py direct search: the loop of        *)
(*              scan_direct_arbitrage and _scan_single_pair                *)
(*   TriSpec    bot/arbitrage_scanner.py triangular search, one step per   *)
(*              quote, driven by scan_all_triangular / full_scan           *)
(*   ParSpec    bot/arbitrage_scanner.py scan_pair_parallel: the pool of   *)
(*              _scan_single_pair workers and their quote requests         *)
(*   ProfitSpec bot/profit_calculator.py: the two profit calculations,     *)
(*              applied to drawn opportunities, prices and gas prices      *)
(*   OracleSpec bot/profit_calculator.py: calculations over time, through *)
(*              the price cache, with failing oracle and gas price reads  *)
(*   ThreadSpec bot/profit_calculator.py: _get_chainlink_price called by   *)
(*              several threads, one dict operation per step               *)
(*   BotSpec    bot/main.py ArbitrageBot.run and bot/executor.py: scan,    *)
(*              evaluate, execute, record, for every mode and setting      *)
(*                                                                         *)
(* Numbers.  The guards compute in Python floats; the model computes the   *)
(* same expressions in exact rational arithmetic (a fraction is a record   *)
(* [n, d]; every comparison is cross-multiplied), so float rounding at a   *)
(* threshold is not modelled.  Units:                                      *)
(*   DEX price        ticks of 0.01 (quote per base)                       *)
(*   oracle answer    cents (0.01 USD)                                     *)
(*   trade_size, reserve_in   whole units (USD / tokens)                   *)
(*   gas_cost_usd     1e-5 USD                                             *)
(***************************************************************************)
EXTENDS Integers, Sequences, FiniteSets, TLC

VARIABLES
    \* evaluate_trade (bot/decision.py)
    ev_pc,        \* position in the function
    ev_args,      \* its keyword arguments
    ev_calls,     \* guard functions called so far, in call order
    ev_reads,     \* external reads made so far (w3 calls), in order
    oracle,       \* local: OracleResult of gate 2
    liquidity,    \* local: LiquidityResult of gate 3
    dex_check,    \* local: DexConsistencyResult of gate 4
    profit,       \* local: ProfitResult of gate 5
    gas_price_gwei, \* local: gas price used by gate 5
    decision,     \* the returned Decision
    \* QuoteEngine.aggregate_quotes (bot/quote_engine.py)
    ag_pc,        \* position in the function
    ag_args,      \* its arguments
    ag_futures,   \* future_to_dex: one get_quote future per list entry
    ag_quotes,    \* local dict quotes, as its items in insertion order
    ag_result,    \* the returned AggregatedQuotes
    \* direct search (bot/arbitrage_scanner.py)
    sc_pc,        \* position in scan_direct_arbitrage / _scan_single_pair
    sc_args,      \* the call's arguments and the scanner's min_profit_bps
    sc_forward,   \* local: the AggregatedQuotes of the forward leg
    sc_k,         \* local: index of the (buy_dex, sell_dex) iteration
    sc_best_profit, \* local: best_profit
    sc_best_opp,  \* local: best_opp
    sc_counter,   \* the scanner's _opportunity_counter
    sc_result,    \* the returned Optional[DirectArbOpportunity]
    sc_requests,  \* history: the reverse get_quote calls made, in order
    sc_cleared,   \* history: gross profits that passed the three filters
    \* triangular search and the batch over routes (bot/arbitrage_scanner.py)
    tr_pc,        \* position in scan_triangular_arbitrage
    tr_args,      \* its arguments and the scanner's min_profit_bps
    tr_i,         \* locals: the positions of dex1, dex2, dex3 in dex_list
    tr_q1,        \* local: quote1
    tr_q2,        \* local: quote2
    tr_best_profit, \* local: best_profit
    tr_best_opp,  \* local: best_opp
    tr_counter,   \* the scanner's _opportunity_counter
    tr_result,    \* the returned Optional[TriangularArbOpportunity]
    tr_best_legs, \* history: the three quotes best_opp was built from
    tr_req,       \* history: the last quote requested (venue path, amount)
    tr_legs,      \* history: legs asked of a venue, legs that gave a usable quote
    tb_pc,        \* position in scan_all_triangular / full_scan
    tb_args,      \* the entry point called and its routes
    tb_idx,       \* local: position in routes
    tb_opps,      \* local: opportunities
    tb_log,       \* logger.warning calls made by the batch
    tb_outcomes,  \* history: how the search of each route ended
    tb_result,    \* the returned list / ScanResult
    \* FastArbitrageScanner.scan_pair_parallel (bot/arbitrage_scanner.py)
    pp_pc,        \* position in scan_pair_parallel
    pp_args,      \* pairs_with_amounts and the scanner's min_profit_bps
    pp_workers,   \* one _scan_single_pair future per entry
    pp_opps,      \* local: opportunities
    pp_counter,   \* the scanner's _opportunity_counter
    pp_result,    \* the returned list
    \* ProfitCalculator (bot/profit_calculator.py)
    pm_in,        \* an opportunity, the flags and what the price feeds answer
    pm_runs,      \* the calls made on it: gas price in use, ProfitBreakdown
    \* ArbitrageBot (bot/main.py) and its executor (bot/executor.py)
    bot_mode,     \* ArbitrageBot.mode
    dry_run_mode, \* config.DRY_RUN_MODE
    simulation_mode, \* config.SIMULATION_MODE
    bot_pc,       \* position in run / run_single_scan / the executor
    bot_opp,      \* local opp: scan_results["best_direct"]
    bot_breakdown, \* evaluation["breakdown"]
    ex_result,    \* the ExecutionResult of the current attempt
    txs,          \* transactions sent in the current scan cycle, in order
    consecutive_failures, \* stats.consecutive_failures
    now,          \* time.time(), in seconds since the bot started
    ex_handed,    \* what execute_safe_trade handed to the engine, and the balance it read
    ex_simulated, \* the swaps simulate_swap has passed in the current attempt
    \* ProfitCalculator with its price cache (bot/profit_calculator.py)
    or_cache,     \* _price_cache: per symbol, the (price, time) stored
    or_clock,     \* time.time()
    or_last,      \* the last calculation: its lookups, gas price and breakdown
    or_prev_failed, \* symbols whose oracle read failed in the calculation before
    \* threads sharing one ProfitCalculator (bot/profit_calculator.py)
    pt_cache,     \* _price_cache[chainlink_MATIC], with who wrote each half
    pt_clock,     \* time.time()
    pt_threads    \* per thread: where it is in _get_chainlink_price, its locals

guardVars == <<ev_pc, ev_args, ev_calls, ev_reads, oracle, liquidity,
               dex_check, profit, gas_price_gwei, decision>>

aggVars == <<ag_pc, ag_args, ag_futures, ag_quotes, ag_result>>

scanVars == <<sc_pc, sc_args, sc_forward, sc_k, sc_best_profit, sc_best_opp,
              sc_counter, sc_result, sc_requests, sc_cleared>>

botVars == <<bot_mode, dry_run_mode, simulation_mode, bot_pc, bot_opp,
             bot_breakdown, ex_result, txs, consecutive_failures, now,
             ex_handed, ex_simulated>>

triVars == <<tr_pc, tr_args, tr_i, tr_q1, tr_q2, tr_best_profit, tr_best_opp,
             tr_counter, tr_result, tr_best_legs, tr_req, tr_legs,
             tb_pc, tb_args, tb_idx, tb_opps, tb_log, tb_outcomes, tb_result>>

parVars == <<pp_pc, pp_args, pp_workers, pp_opps, pp_counter, pp_result>>

profitVars == <<pm_in, pm_runs>>

oracleVars == <<or_cache, or_clock, or_last, or_prev_failed>>

threadVars == <<pt_cache, pt_clock, pt_threads>>

vars == <<guardVars, aggVars, scanVars, botVars, triVars, parVars,
          profitVars,
          oracleVars,
          threadVars>>

\* what a step of one component leaves alone
notGuard == <<aggVars, scanVars, botVars, triVars, parVars, profitVars, oracleVars, threadVars>>
notAgg == <<guardVars, scanVars, botVars, triVars, parVars, profitVars, oracleVars, threadVars>>
notScan == <<guardVars, aggVars, botVars, triVars, parVars, profitVars, oracleVars, threadVars>>
notBot == <<guardVars, aggVars, scanVars, triVars, parVars, profitVars, oracleVars, threadVars>>
notTri == <<guardVars, aggVars, scanVars, botVars, parVars, profitVars, oracleVars, threadVars>>
notPar == <<guardVars, aggVars, scanVars, botVars, triVars, profitVars, oracleVars, threadVars>>
notProfit == <<guardVars, aggVars, scanVars, botVars, triVars, parVars, oracleVars, threadVars>>
notOracle == <<guardVars, aggVars, scanVars, botVars, triVars, parVars, profitVars, threadVars>>
notThread == <<guardVars, aggVars, scanVars, botVars, triVars, parVars, profitVars, oracleVars>>

-----------------------------------------------------------------------------
(* Generic helpers *)

Abs(x) == IF x < 0 THEN -x ELSE x

Frac(n, d) == [n |-> n, d |-> d]

\* a value that is not there (Python None / an unassigned local)
NONE == [none |-> TRUE]

RECURSIVE SetSum(_, _)
SetSum(f, S) ==
    IF S = {} THEN 0
    ELSE LET k == CHOOSE k \in S : TRUE IN f[k] + SetSum(f, S \ {k})

SetMax(f, S) == CHOOSE v \in {f[k] : k \in S} : \A k \in S : f[k] <= v
SetMin(f, S) == CHOOSE v \in {f[k] : k \in S} : \A k \in S : v <= f[k]

\* the values of mapping f in ascending order (with repetitions)
RECURSIVE SortedValues(_, _)
SortedValues(f, S) ==
    IF S = {} THEN <<>>
    ELSE LET k == CHOOSE k \in S : \A j \in S : f[k] <= f[j]
         IN  <<f[k]>> \o SortedValues(f, S \ {k})

-----------------------------------------------------------------------------
(* Registry: bot/pairs.py *)

\* token addresses, named as the module constants of pairs.py name them
TOKENS == [USDC_LEGACY |-> "USDC.e", USDT |-> "USDT", WMATIC |-> "WMATIC",
           WBTC |-> "WBTC", QUICK |-> "QUICK", FRAX |-> "FRAX",
           WETH |-> "WETH"]

get_symbol(address) ==
    IF address \in DOMAIN TOKENS THEN TOKENS[address] ELSE "UNKNOWN"

\* the part of HIGH_VOLUME_PAIRS over the modelled tokens
HIGH_VOLUME_PAIRS == {<<"WMATIC", "USDC_LEGACY">>, <<"WMATIC", "USDT">>,
                      <<"USDC_LEGACY", "USDT">>, <<"QUICK", "WMATIC">>}

SAFE_PAIRS == HIGH_VOLUME_PAIRS \cup {<<p[2], p[1]>> : p \in HIGH_VOLUME_PAIRS}

\* DEXES keys, in dict order
DexNames == <<"quickswap", "sushiswap", "apeswap", "dfyn", "meshswap">>

-----------------------------------------------------------------------------
(* Bounds and input domains of the guard chain *)

NumGuardDex == 2       \* venues that may appear in dex_prices

GuardDexes == {DexNames[i] : i \in 1..NumGuardDex}

Prices == {0, 100, 102, 104}            \* ticks: 0, 1.00, 1.02, 1.04
TradeSizes == {0, 5, 50}
Reserves == {0, 100, 100000}
OracleAnswers == {0, 100, 120}          \* cents
GasPricesGwei == {30, 200, 500}

CandidatePairs == {<<"USDC_LEGACY", "USDT">>, <<"QUICK", "WMATIC">>,
                   <<"WMATIC", "QUICK">>, <<"WBTC", "USDT">>,
                   <<"FRAX", "USDT">>}

DexPriceMaps == UNION {[S -> Prices] : S \in SUBSET GuardDexes}

\* outcome of one _read_chainlink_price call
ReadOutcomes == {[st |-> "fail", answer |-> 0], [st |-> "stale", answer |-> 0]}
                \cup {[st |-> "ok", answer |-> a] : a \in OracleAnswers}

-----------------------------------------------------------------------------
(* bot/filters/oracle_check.py *)

MAX_DEVIATION_PCT == 5
MAX_IMPACT_PCT == 1
MAX_SPREAD_PCT == 3
MIN_PROFIT_USD_GUARD == 5000      \* 0.05 USD in 1e-5 USD
MIN_PROFIT_PCT_BPS == 10          \* 0.10 percent
DEX_FEE_PCT_BPS == 30             \* 0.30 percent per swap
GAS_LIMIT_SWAP_GUARD == 180000
MATIC_PRICE_CENTS == 50
DEFAULT_GAS_GWEI == 50

CHAINLINK_FEEDS == {"USDC", "USDC.e", "USDT", "DAI", "WMATIC", "WETH", "WBTC",
                    "LINK", "AAVE", "CRV", "SUSHI", "UNI"}

OracleResult(ok, oracle_price, quoted_price, deviation_pct, reason) ==
    [ok |-> ok, oracle_price |-> oracle_price, quoted_price |-> quoted_price,
     deviation_pct |-> deviation_pct, reason |-> reason]

\* _read_chainlink_price raises on a failed call and on stale data
ReadRaises(r) == r.st # "ok"

\* fault injection for C4: a guard that passes when a feed read raises
oracle_price_guard_vacuous(base_token, quote_token, quoted2, rb, rq, max_deviation_pct) ==
    OracleResult(TRUE, Frac(0, 1), Frac(quoted2, 200), Frac(0, 1),
                 "No Chainlink feed - skipping oracle check")

\* quoted2 is twice the quoted price (the median of an even count is a mean
\* of two ticks); rb, rq are the outcomes of the two feed reads
oracle_price_guard(base_token, quote_token, quoted2, rb, rq, max_deviation_pct) ==
    LET base_sym == get_symbol(base_token)
        quote_sym == get_symbol(quote_token)
        quoted_price == Frac(quoted2, 200)
        base_usd == rb.answer
        quote_usd == rq.answer
        positive == quote_usd > 0 /\ base_usd > 0      \* oracle_price > 0
        oracle_price == IF quote_usd > 0 THEN Frac(base_usd, quote_usd)
                        ELSE Frac(0, 1)
        devnum == Abs(quoted2 * quote_usd - 200 * base_usd)
        deviation == IF positive THEN Frac(devnum, 2 * base_usd)
                     ELSE Frac(100, 1)
        too_far == deviation.n > max_deviation_pct * deviation.d
    IN  IF base_sym \notin CHAINLINK_FEEDS
        THEN OracleResult(TRUE, Frac(0, 1), quoted_price, Frac(0, 1),
                          "No Chainlink feed - skipping oracle check")
        ELSE IF quote_sym \notin CHAINLINK_FEEDS
        THEN OracleResult(TRUE, Frac(0, 1), quoted_price, Frac(0, 1),
                          "No Chainlink feed - skipping oracle check")
        ELSE IF ReadRaises(rb) \/ ReadRaises(rq)
        THEN OracleResult(FALSE, Frac(0, 1), quoted_price, Frac(100, 1),
                          "Oracle read failed")
        ELSE IF too_far
        THEN OracleResult(FALSE, oracle_price, quoted_price, deviation,
                          "Oracle deviation")
        ELSE OracleResult(TRUE, oracle_price, quoted_price, deviation, "")

\* the feed reads oracle_price_guard makes: none without both feeds, the
\* quote feed only when the base read returned
OracleReads(base_token, quote_token, rb, rq) ==
    IF get_symbol(base_token) \notin CHAINLINK_FEEDS
       \/ get_symbol(quote_token) \notin CHAINLINK_FEEDS
    THEN <<>>
    ELSE IF ReadRaises(rb) THEN <<[src |-> "chainlink", out |-> rb]>>
    ELSE <<[src |-> "chainlink", out |-> rb],
           [src |-> "chainlink", out |-> rq]>>

-----------------------------------------------------------------------------
(* bot/filters/liquidity_check.py *)

liquidity_guard(reserve_in, trade_size, max_impact_pct) ==
    IF reserve_in <= 0
    THEN [ok |-> FALSE, reserve_in |-> reserve_in, trade_size |-> trade_size,
          price_impact_pct |-> Frac(100, 1),
          reason |-> "Zero or invalid liquidity"]
    ELSE LET impact_pct == Frac(trade_size * 100, reserve_in)
         IN  IF impact_pct.n > max_impact_pct * impact_pct.d
             THEN [ok |-> FALSE, reserve_in |-> reserve_in,
                   trade_size |-> trade_size, price_impact_pct |-> impact_pct,
                   reason |-> "Price impact"]
             ELSE [ok |-> TRUE, reserve_in |-> reserve_in,
                   trade_size |-> trade_size, price_impact_pct |-> impact_pct,
                   reason |-> ""]

-----------------------------------------------------------------------------
(* bot/filters/dex_consistency.py *)

\* mean(values) = 0 makes the spread division raise ZeroDivisionError
DexConsistencyRaises(dex_prices) ==
    /\ Cardinality(DOMAIN dex_prices) >= 2
    /\ SetSum(dex_prices, DOMAIN dex_prices) = 0

dex_consistency_guard(dex_prices, max_spread_pct) ==
    LET D == DOMAIN dex_prices
        n == Cardinality(D)
    IN  IF n < 2
        THEN [ok |-> FALSE, prices |-> dex_prices, spread_pct |-> Frac(100, 1),
              reason |-> "Not enough DEX quotes"]
        ELSE LET p_max == SetMax(dex_prices, D)
                 p_min == SetMin(dex_prices, D)
                 total == SetSum(dex_prices, D)       \* p_mid = total / n
                 spread_pct == Frac((p_max - p_min) * 100 * n, total)
             IN  IF spread_pct.n > max_spread_pct * spread_pct.d
                 THEN [ok |-> FALSE, prices |-> dex_prices,
                       spread_pct |-> spread_pct, reason |-> "DEX spread"]
                 ELSE [ok |-> TRUE, prices |-> dex_prices,
                       spread_pct |-> spread_pct, reason |-> ""]

-----------------------------------------------------------------------------
(* bot/gas.py, bot/filters/profit_check.py *)

\* gas_units * gas_price_gwei * 1e-9 * matic_price_usd, in 1e-5 USD
estimate_gas_cost_usd(gwei, matic_price_cents) ==
    ((GAS_LIMIT_SWAP_GUARD \div 1000) * gwei * matic_price_cents) \div 1000

\* sell_price / buy_price and net_profit / trade_size_usd raise on a zero
ProfitGuardRaises(trade_size_usd, buy_price) ==
    buy_price = 0 \/ trade_size_usd = 0

\* fault injection for C6: a profit guard that forgets the gas cost
profit_guard_no_gas(trade_size_usd, buy_price, sell_price, gas_cost_usd, min_profit_usd, min_profit_pct_bps) ==
    LET net_profit == trade_size_usd * 100000 * (sell_price - buy_price)
                      - trade_size_usd * DEX_FEE_PCT_BPS * 10 * 2 * buy_price
        ok == /\ net_profit >= min_profit_usd * buy_price
              /\ net_profit * 100 >=
                    min_profit_pct_bps * trade_size_usd * 1000 * buy_price
    IN  [ok |-> ok, gross_profit_usd |-> Frac(net_profit, buy_price),
         gas_cost_usd |-> gas_cost_usd,
         net_profit_usd |-> Frac(net_profit, buy_price),
         net_profit_pct |-> Frac(net_profit,
                                 trade_size_usd * 1000 * buy_price),
         reason |-> IF ok THEN "" ELSE "Net profit below minimum"]

\* every amount below is the Python amount times buy_price, in 1e-5 USD
profit_guard(trade_size_usd, buy_price, sell_price, gas_cost_usd, min_profit_usd, min_profit_pct_bps) ==
    LET gross_return == trade_size_usd * 100000 * sell_price
        fee_cost == trade_size_usd * DEX_FEE_PCT_BPS * 10 * 2 * buy_price
        gross_profit == gross_return - trade_size_usd * 100000 * buy_price
                        - fee_cost
        net_profit == gross_profit - gas_cost_usd * buy_price
        \* net_profit_pct = net_profit / trade_size_usd * 100
        net_profit_pct == Frac(net_profit, trade_size_usd * 1000 * buy_price)
        res(ok, reason) ==
            [ok |-> ok, gross_profit_usd |-> Frac(gross_profit, buy_price),
             gas_cost_usd |-> gas_cost_usd,
             net_profit_usd |-> Frac(net_profit, buy_price),
             net_profit_pct |-> net_profit_pct, reason |-> reason]
    IN  IF net_profit < min_profit_usd * buy_price
        THEN res(FALSE, "Net profit USD below minimum")
        ELSE IF net_profit * 100 <
                min_profit_pct_bps * trade_size_usd * 1000 * buy_price
        THEN res(FALSE, "Net profit pct below minimum")
        ELSE res(TRUE, "")

-----------------------------------------------------------------------------
(* bot/profit_calculator.py: the Profit Model                              *)
(* Units: token amounts in 1e-4 token, USD prices in cents, USD amounts in *)
(* 1e-6 USD, gas_cost_matic in 1e-4 MATIC.  Decimal (50 digits) is exact   *)
(* on these values; amount_in is a whole number of tokens.                 *)

AAVE_FLASH_LOAN_FEE_BPS == 5
MIN_PROFIT_USD == 50000           \* 0.05 USD in 1e-6 USD
MIN_PROFIT_BPS == 10
GAS_LIMIT_SWAP == 200000
GAS_LIMIT_FLASH_LOAN == 500000
DEFAULT_SLIPPAGE_DIRECT == 30

\* int(): truncation toward zero of a / b, b > 0
Trunc(a, b) == IF a >= 0 THEN a \div b ELSE -((-a) \div b)

\* fault injection for C20: the cost is taken at the default gas price
estimate_gas_cost_flat(gas_units, gwei, matic_price) ==
    LET gas_cost_matic == (gas_units \div 100000) * DEFAULT_GAS_GWEI
    IN  [gas_units |-> gas_units, gas_price_gwei |-> gwei,
         gas_cost_matic |-> gas_cost_matic,
         gas_cost_usd |-> gas_cost_matic * matic_price,
         matic_price_usd |-> matic_price]

estimate_gas_cost(gas_units, gwei, matic_price) ==
    LET gas_cost_matic == (gas_units \div 100000) * gwei
    IN  [gas_units |-> gas_units, gas_price_gwei |-> gwei,
         gas_cost_matic |-> gas_cost_matic,
         gas_cost_usd |-> gas_cost_matic * matic_price,
         matic_price_usd |-> matic_price]

\* fault injection for C19: either threshold is enough
ProfitDecision_either_threshold(net_profit_usd, net_profit_bps) ==
    LET is_profitable == \/ net_profit_usd >= MIN_PROFIT_USD
                         \/ net_profit_bps >= MIN_PROFIT_BPS
    IN  [is_profitable |-> is_profitable,
         reason |-> IF is_profitable THEN ""
                    ELSE IF net_profit_usd < MIN_PROFIT_USD
                    THEN "Net profit USD < min"
                    ELSE IF net_profit_bps < MIN_PROFIT_BPS
                    THEN "Net profit bps < min"
                    ELSE ""]

\* the "Decision" block of both calculations: is_profitable and reason
ProfitDecision(net_profit_usd, net_profit_bps) ==
    LET is_profitable == /\ net_profit_usd >= MIN_PROFIT_USD
                         /\ net_profit_bps >= MIN_PROFIT_BPS
    IN  [is_profitable |-> is_profitable,
         reason |-> IF is_profitable THEN ""
                    ELSE IF net_profit_usd < MIN_PROFIT_USD
                    THEN "Net profit USD < min"
                    ELSE IF net_profit_bps < MIN_PROFIT_BPS
                    THEN "Net profit bps < min"
                    ELSE ""]

\* token_a_price_usd and matic_price are what get_token_price_usd and
\* get_matic_price_usd returned; gwei is the gas price in use
calculate_direct_arb_profit(opportunity, use_flash_loan, flash_loan_fee_bps, slippage_bps, gwei, token_a_price_usd, matic_price) ==
    LET amount_in == opportunity.amount_in
        tokens_in == amount_in \div 10000
        gross_return == opportunity.sell_amount_out
        gross_profit == gross_return - amount_in
        gross_profit_bps == IF amount_in > 0
                            THEN Trunc(gross_profit * 10000, amount_in) ELSE 0
        flash_loan_fee == IF use_flash_loan
                          THEN tokens_in * flash_loan_fee_bps ELSE 0
        gas_units == IF use_flash_loan THEN GAS_LIMIT_FLASH_LOAN
                     ELSE GAS_LIMIT_SWAP * 2
        gas_cost == estimate_gas_cost(gas_units, gwei, matic_price)
        has_price == token_a_price_usd > 0
        gas_cost_in_token == IF has_price
                             THEN Frac(gas_cost.gas_cost_usd, token_a_price_usd)
                             ELSE Frac(0, 1)
        slippage_estimate == tokens_in * slippage_bps
        den == gas_cost_in_token.d
        total_costs == Frac((flash_loan_fee + slippage_estimate) * den
                            + gas_cost_in_token.n, den)
        net_profit == Frac(gross_profit * den - total_costs.n, den)
        net_profit_usd == IF has_price THEN net_profit.n ELSE 0
        net_profit_bps == IF amount_in > 0
                          THEN Trunc(net_profit.n, den * tokens_in) ELSE 0
        verdict == ProfitDecision(net_profit_usd, net_profit_bps)
        is_profitable == verdict.is_profitable
        reason == verdict.reason
    IN  [trade_amount |-> amount_in,
         gross_return |-> gross_return, gross_profit |-> gross_profit,
         gross_profit_bps |-> gross_profit_bps,
         flash_loan_fee |-> flash_loan_fee, gas_cost |-> gas_cost,
         slippage_estimate |-> slippage_estimate,
         total_costs |-> total_costs, net_profit |-> net_profit,
         net_profit_usd |-> net_profit_usd, net_profit_bps |-> net_profit_bps,
         is_profitable |-> is_profitable, reason |-> reason]

GAS_LIMIT_TRIANGULAR == 600000
DEFAULT_SLIPPAGE_TRIANGULAR == 50

\* the tokens get_token_price_usd has a feed symbol for
PRICE_MAP == [WMATIC |-> "MATIC", WETH |-> "ETH", WBTC |-> "BTC",
              USDC_LEGACY |-> "USDC", USDT |-> "USDT"]

\* get_token_price_usd: the feed's price, or 0 for a token not in the map
get_token_price_usd(token_address, feed_price) ==
    IF token_address \in DOMAIN PRICE_MAP THEN feed_price ELSE 0

\* the threads calling the price lookup for one symbol
PriceThreads == {"t1", "t2"}

\* the symbols profit_calculator.CHAINLINK_FEEDS has an address for
PROFIT_CHAINLINK_FEEDS == {"MATIC", "ETH", "BTC", "LINK", "USDC", "USDT",
                           "DAI"}
\* the symbols looked up for the modelled opportunities
OracleSymbols == {"MATIC", "USDC"}
PRICE_CACHE_TTL == 10             \* _price_cache_ttl, seconds
GAS_PRICE_FALLBACK_GWEI == 50     \* estimate_gas_cost when the read fails
MAX_GAS_PRICE_GWEI == 500

\* defaults.get(symbol, Decimal("1.0")), in cents
DefaultPrice(symbol) ==
    IF symbol = "MATIC" THEN 50
    ELSE IF symbol = "ETH" THEN 200000
    ELSE IF symbol = "BTC" THEN 4000000
    ELSE 100

\* fault injection for C22: an entry is served up to and including the TTL
CacheFresh_through_ttl(entry, t) == t - entry.time <= PRICE_CACHE_TTL

\* now - cached_time < self._price_cache_ttl
CacheFresh(entry, t) == t - entry.time < PRICE_CACHE_TTL

\* fault injection for C21: the default is stored like an oracle answer
get_chainlink_price_stores_default(cache, symbol, t, reply) ==
    IF cache[symbol] # NONE /\ CacheFresh(cache[symbol], t)
    THEN [price |-> cache[symbol].price, cache |-> cache, source |-> "cache",
          entry |-> cache[symbol]]
    ELSE IF symbol \notin PROFIT_CHAINLINK_FEEDS
    THEN [price |-> DefaultPrice(symbol), cache |-> cache,
          source |-> "no_feed", entry |-> NONE]
    ELSE LET price == IF reply.kind = "answer" THEN reply.price
                      ELSE DefaultPrice(symbol)
         IN  [price |-> price,
              cache |-> [cache EXCEPT ![symbol] =
                           [price |-> price, time |-> t]],
              source |-> IF reply.kind = "answer" THEN "oracle"
                         ELSE "default",
              entry |-> NONE]

\* _get_chainlink_price(symbol) called at time t on the given cache, the
\* oracle replying with an answer or an exception: the price returned, the
\* cache afterwards, where the price came from and the entry it was read from
get_chainlink_price(cache, symbol, t, reply) ==
    IF cache[symbol] # NONE /\ CacheFresh(cache[symbol], t)
    THEN [price |-> cache[symbol].price, cache |-> cache, source |-> "cache",
          entry |-> cache[symbol]]
    ELSE IF symbol \notin PROFIT_CHAINLINK_FEEDS
    THEN [price |-> DefaultPrice(symbol), cache |-> cache,
          source |-> "no_feed", entry |-> NONE]
    ELSE IF reply.kind = "answer"
    THEN [price |-> reply.price,
          cache |-> [cache EXCEPT ![symbol] =
                       [price |-> reply.price, time |-> t]],
          source |-> "oracle", entry |-> NONE]
    ELSE [price |-> DefaultPrice(symbol), cache |-> cache,
          source |-> "default", entry |-> NONE]

calculate_triangular_arb_profit(opportunity, use_flash_loan, flash_loan_fee_bps, slippage_bps, gwei, token_a_price_usd, matic_price) ==
    LET amount_in == opportunity.amount_in
        tokens_in == amount_in \div 10000
        gross_return == opportunity.final_amount
        gross_profit == gross_return - amount_in
        gross_profit_bps == IF amount_in > 0
                            THEN Trunc(gross_profit * 10000, amount_in) ELSE 0
        flash_loan_fee == IF use_flash_loan
                          THEN tokens_in * flash_loan_fee_bps ELSE 0
        gas_units == IF use_flash_loan THEN GAS_LIMIT_TRIANGULAR
                     ELSE GAS_LIMIT_SWAP * 3
        gas_cost == estimate_gas_cost(gas_units, gwei, matic_price)
        has_price == token_a_price_usd > 0
        gas_cost_in_token == IF has_price
                             THEN Frac(gas_cost.gas_cost_usd, token_a_price_usd)
                             ELSE Frac(0, 1)
        slippage_estimate == tokens_in * slippage_bps
        den == gas_cost_in_token.d
        total_costs == Frac((flash_loan_fee + slippage_estimate) * den
                            + gas_cost_in_token.n, den)
        net_profit == Frac(gross_profit * den - total_costs.n, den)
        net_profit_usd == IF has_price THEN net_profit.n ELSE 0
        net_profit_bps == IF amount_in > 0
                          THEN Trunc(net_profit.n, den * tokens_in) ELSE 0
        verdict == ProfitDecision(net_profit_usd, net_profit_bps)
        is_profitable == verdict.is_profitable
        reason == verdict.reason
    IN  [trade_amount |-> amount_in,
         gross_return |-> gross_return, gross_profit |-> gross_profit,
         gross_profit_bps |-> gross_profit_bps,
         flash_loan_fee |-> flash_loan_fee, gas_cost |-> gas_cost,
         slippage_estimate |-> slippage_estimate,
         total_costs |-> total_costs, net_profit |-> net_profit,
         net_profit_usd |-> net_profit_usd, net_profit_bps |-> net_profit_bps,
         is_profitable |-> is_profitable, reason |-> reason]

-----------------------------------------------------------------------------
(* bot/decision.py: evaluate_trade *)

\* fault injection for C7: a Decision that drops its details
Decision_no_details(allowed, reason, details) ==
    [allowed |-> allowed, reason |-> reason, details |-> <<>>]

Decision(allowed, reason, details) ==
    [allowed |-> allowed, reason |-> reason, details |-> details]

\* statistics.median of the price values, doubled
Median2(dex_prices) ==
    LET s == SortedValues(dex_prices, DOMAIN dex_prices)
        n == Len(s)
    IN  IF n % 2 = 1 THEN 2 * s[(n + 1) \div 2]
        ELSE s[n \div 2] + s[n \div 2 + 1]

\* statistics.median raises StatisticsError on no data
MedianRaises(dex_prices) == DOMAIN dex_prices = {}

GuardInit ==
    /\ ev_pc = "idle"
    /\ ev_args = NONE
    /\ ev_calls = <<>>
    /\ ev_reads = <<>>
    /\ oracle = NONE
    /\ liquidity = NONE
    /\ dex_check = NONE
    /\ profit = NONE
    /\ gas_price_gwei = 0
    /\ decision = NONE

AggInit ==
    /\ ag_pc = "idle"
    /\ ag_args = NONE
    /\ ag_futures = <<>>
    /\ ag_quotes = <<>>
    /\ ag_result = NONE

ScanInit ==
    /\ sc_pc = "idle"
    /\ sc_args = NONE
    /\ sc_forward = NONE
    /\ sc_k = 0
    /\ sc_best_profit = 0
    /\ sc_best_opp = NONE
    /\ sc_counter = 0
    /\ sc_result = NONE
    /\ sc_requests = <<>>
    /\ sc_cleared = {}

\* the bot as constructed with the default mode and configuration
BotIdle ==
    /\ bot_mode = "scan_only"
    /\ dry_run_mode = TRUE
    /\ simulation_mode = TRUE
    /\ bot_pc = "scan"
    /\ bot_opp = NONE
    /\ bot_breakdown = NONE
    /\ ex_result = NONE
    /\ txs = <<>>
    /\ consecutive_failures = 0
    /\ now = 0
    /\ ex_handed = NONE
    /\ ex_simulated = {}

TriInit ==
    /\ tr_pc = "idle"
    /\ tr_args = NONE
    /\ tr_i = <<0, 0, 0>>
    /\ tr_q1 = NONE
    /\ tr_q2 = NONE
    /\ tr_best_profit = 0
    /\ tr_best_opp = NONE
    /\ tr_counter = 0
    /\ tr_result = NONE
    /\ tr_best_legs = <<>>
    /\ tr_req = NONE
    /\ tr_legs = {}
    /\ tb_pc = "idle"
    /\ tb_args = NONE
    /\ tb_idx = 0
    /\ tb_opps = <<>>
    /\ tb_log = <<>>
    /\ tb_outcomes = <<>>
    /\ tb_result = NONE

ParInit ==
    /\ pp_pc = "idle"
    /\ pp_args = NONE
    /\ pp_workers = <<>>
    /\ pp_opps = <<>>
    /\ pp_counter = 0
    /\ pp_result = NONE

\* no profit calculation has been asked for
ProfitIdle ==
    /\ pm_in = NONE
    /\ pm_runs = <<>>

\* ProfitCalculator.__init__: an empty price cache
OracleIdle ==
    /\ or_cache = [symbol \in OracleSymbols |-> NONE]
    /\ or_clock = 0
    /\ or_last = NONE
    /\ or_prev_failed = {}

\* no thread is inside _get_chainlink_price; the cache is empty
ThreadIdle ==
    /\ pt_cache = NONE
    /\ pt_clock = 0
    /\ pt_threads = [t \in PriceThreads |->
                       [pc |-> "idle", now |-> 0, seen |-> NONE,
                        price |-> 0, result |-> NONE]]

Init ==
    /\ GuardInit /\ AggInit /\ ScanInit /\ BotIdle /\ TriInit /\ ParInit
    /\ ProfitIdle
    /\ OracleIdle
    /\ ThreadIdle

\* a caller invokes evaluate_trade(...)
EvaluateTradeCall ==
    /\ ev_pc = "idle"
    /\ \E pr \in CandidatePairs, ts \in TradeSizes, dp \in DexPriceMaps,
          r \in Reserves, sw \in BOOLEAN :
          ev_args' = [base_token |-> pr[1], quote_token |-> pr[2],
                      trade_size |-> ts, dex_prices |-> dp,
                      reserve_in |-> r, skip_whitelist |-> sw]
    /\ ev_pc' = "whitelist"
    /\ UNCHANGED <<ev_calls, ev_reads, oracle, liquidity, dex_check, profit,
                   gas_price_gwei, decision>>
    /\ UNCHANGED notGuard

\* 1: pair whitelist
WhitelistGate ==
    /\ ev_pc = "whitelist"
    /\ IF ~ev_args.skip_whitelist
          /\ <<ev_args.base_token, ev_args.quote_token>> \notin SAFE_PAIRS
       THEN /\ decision' = Decision(FALSE, "Pair not whitelisted", <<>>)
            /\ ev_pc' = "returned"
       ELSE /\ ev_pc' = "oracle"
            /\ UNCHANGED decision
    /\ UNCHANGED <<ev_args, ev_calls, ev_reads, oracle, liquidity, dex_check,
                   profit, gas_price_gwei>>
    /\ UNCHANGED notGuard

\* 2: oracle price guard (median first; it raises on an empty mapping)
OracleGate ==
    /\ ev_pc = "oracle"
    /\ IF MedianRaises(ev_args.dex_prices)
       THEN /\ ev_pc' = "raised"
            /\ UNCHANGED <<ev_calls, ev_reads, oracle, decision>>
       ELSE \E rb \in ReadOutcomes, rq \in ReadOutcomes :
            LET reads == OracleReads(ev_args.base_token,
                                     ev_args.quote_token, rb, rq)
                res == oracle_price_guard(
                           ev_args.base_token, ev_args.quote_token,
                           Median2(ev_args.dex_prices), rb,
                           IF Len(reads) = 2 THEN rq
                           ELSE [st |-> "fail", answer |-> 0],
                           MAX_DEVIATION_PCT)
            IN  \* a read that is not made has no outcome to choose
                /\ Len(reads) < 2 => rq = [st |-> "fail", answer |-> 0]
                /\ Len(reads) < 1 => rb = [st |-> "fail", answer |-> 0]
                /\ ev_calls' = Append(ev_calls, "oracle_price_guard")
                /\ ev_reads' = ev_reads \o reads
                /\ oracle' = res
                /\ IF ~res.ok
                   THEN /\ decision' = Decision(FALSE, "Oracle guard failed",
                                                res)
                        /\ ev_pc' = "returned"
                   ELSE /\ ev_pc' = "liquidity"
                        /\ UNCHANGED decision
    /\ UNCHANGED <<ev_args, liquidity, dex_check, profit, gas_price_gwei>>
    /\ UNCHANGED notGuard

\* fault injection for C2: a liquidity gate that does not short-circuit
LiquidityGate_no_return ==
    /\ ev_pc = "liquidity"
    /\ ev_calls' = Append(ev_calls, "liquidity_guard")
    /\ liquidity' = liquidity_guard(ev_args.reserve_in, ev_args.trade_size,
                                    MAX_IMPACT_PCT)
    /\ ev_pc' = "dex"
    /\ UNCHANGED <<ev_args, ev_reads, oracle, dex_check, profit,
                   gas_price_gwei, decision>>
    /\ UNCHANGED notGuard

\* 3: liquidity guard
LiquidityGate ==
    /\ ev_pc = "liquidity"
    /\ LET res == liquidity_guard(ev_args.reserve_in, ev_args.trade_size,
                                  MAX_IMPACT_PCT)
       IN  /\ ev_calls' = Append(ev_calls, "liquidity_guard")
           /\ liquidity' = res
           /\ IF ~res.ok
              THEN /\ decision' = Decision(FALSE, "Liquidity guard failed", res)
                   /\ ev_pc' = "returned"
              ELSE /\ ev_pc' = "dex"
                   /\ UNCHANGED decision
    /\ UNCHANGED <<ev_args, ev_reads, oracle, dex_check, profit,
                   gas_price_gwei>>
    /\ UNCHANGED notGuard

\* 4: DEX consistency guard
DexGate ==
    /\ ev_pc = "dex"
    /\ ev_calls' = Append(ev_calls, "dex_consistency_guard")
    /\ IF DexConsistencyRaises(ev_args.dex_prices)
       THEN /\ ev_pc' = "raised"
            /\ UNCHANGED <<dex_check, decision>>
       ELSE LET res == dex_consistency_guard(ev_args.dex_prices,
                                             MAX_SPREAD_PCT)
            IN  /\ dex_check' = res
                /\ IF ~res.ok
                   THEN /\ decision' = Decision(FALSE,
                                                "DEX consistency failed", res)
                        /\ ev_pc' = "returned"
                   ELSE /\ ev_pc' = "profit"
                        /\ UNCHANGED decision
    /\ UNCHANGED <<ev_args, ev_reads, oracle, liquidity, profit,
                   gas_price_gwei>>
    /\ UNCHANGED notGuard

\* 5: profit and gas guard; the gas price read falls back to the default
ProfitGate ==
    /\ ev_pc = "profit"
    /\ \E gp \in GasPricesGwei \cup {-1} :
       LET D == DOMAIN ev_args.dex_prices
           buy_price == SetMin(ev_args.dex_prices, D)
           sell_price == SetMax(ev_args.dex_prices, D)
           gwei == IF gp = -1 THEN DEFAULT_GAS_GWEI ELSE gp
           gas_cost_usd == estimate_gas_cost_usd(gwei, MATIC_PRICE_CENTS)
           read == [src |-> "gas_price",
                    out |-> IF gp = -1 THEN [st |-> "fail", answer |-> 0]
                            ELSE [st |-> "ok", answer |-> gp]]
       IN  /\ ev_reads' = Append(ev_reads, read)
           /\ gas_price_gwei' = gwei
           /\ ev_calls' = Append(ev_calls, "profit_guard")
           /\ IF ProfitGuardRaises(ev_args.trade_size, buy_price)
              THEN /\ ev_pc' = "raised"
                   /\ UNCHANGED <<profit, decision>>
              ELSE LET res == profit_guard(ev_args.trade_size, buy_price,
                                           sell_price, gas_cost_usd,
                                           MIN_PROFIT_USD_GUARD,
                                           MIN_PROFIT_PCT_BPS)
                   IN  /\ profit' = res
                       /\ ev_pc' = "returned"
                       /\ decision' =
                            IF ~res.ok
                            THEN Decision(FALSE, "Profit guard failed", res)
                            ELSE Decision(TRUE,
                                   "All guards passed (profitable)",
                                   [oracle |-> oracle,
                                    liquidity |-> liquidity,
                                    dex |-> dex_check, profit |-> res,
                                    gas_cost_usd |-> gas_cost_usd])
    /\ UNCHANGED <<ev_args, oracle, liquidity, dex_check>>
    /\ UNCHANGED notGuard

GuardNext ==
    \/ EvaluateTradeCall
    \/ WhitelistGate
    \/ OracleGate
    \/ LiquidityGate
    \/ DexGate
    \/ ProfitGate

GuardSpec == Init /\ [][GuardNext]_vars

-----------------------------------------------------------------------------
(* Properties of the guard chain (GuardSpec) *)

GateOrder == <<"oracle_price_guard", "liquidity_guard",
               "dex_consistency_guard", "profit_guard">>

WhitelistPassed ==
    /\ ev_args # NONE
    /\ \/ ev_args.skip_whitelist
       \/ <<ev_args.base_token, ev_args.quote_token>> \in SAFE_PAIRS

Passed(result) == result # NONE /\ result.ok

GasReads == {i \in 1..Len(ev_reads) : ev_reads[i].src = "gas_price"}
FeedReads == {i \in 1..Len(ev_reads) : ev_reads[i].src = "chainlink"}

\* C2: the gates run in the fixed order and gate k is evaluated (its guard
\* function called, its external reads made) only if every gate before it
\* passed; when the whitelist gate fails gates 2-5 are not evaluated.
C2_ShortCircuit ==
    /\ Len(ev_calls) <= Len(GateOrder)
    /\ ev_calls = SubSeq(GateOrder, 1, Len(ev_calls))
    /\ Len(ev_calls) >= 1 => WhitelistPassed
    /\ Len(ev_calls) >= 2 => Passed(oracle)
    /\ Len(ev_calls) >= 3 => Passed(oracle) /\ Passed(liquidity)
    /\ Len(ev_calls) >= 4 =>
         Passed(oracle) /\ Passed(liquidity) /\ Passed(dex_check)
    /\ FeedReads # {} => WhitelistPassed
    /\ GasReads # {} =>
         /\ WhitelistPassed
         /\ Passed(oracle) /\ Passed(liquidity) /\ Passed(dex_check)
    /\ ~WhitelistPassed =>
         /\ ev_calls = <<>> /\ ev_reads = <<>>
         /\ oracle = NONE /\ liquidity = NONE
         /\ dex_check = NONE /\ profit = NONE

\* C2 witness: rejected at the liquidity gate after the oracle gate passed;
\* gates 4 and 5 were not called and the gas price was not read
C2_Witness ==
    /\ ev_pc = "returned"
    /\ decision.reason = "Liquidity guard failed"
    /\ ev_calls = <<"oracle_price_guard", "liquidity_guard">>
    /\ FeedReads # {} /\ GasReads = {}
    /\ dex_check = NONE /\ profit = NONE

\* the first gate, in gate order, that failed; gates 3 and 4 are functions of
\* the arguments alone and are computed here whether or not the chain got
\* there
FirstFailure ==
    IF ~WhitelistPassed THEN "Pair not whitelisted"
    ELSE IF oracle # NONE /\ ~oracle.ok THEN "Oracle guard failed"
    ELSE IF ~liquidity_guard(ev_args.reserve_in, ev_args.trade_size,
                             MAX_IMPACT_PCT).ok
    THEN "Liquidity guard failed"
    ELSE IF ~dex_consistency_guard(ev_args.dex_prices, MAX_SPREAD_PCT).ok
    THEN "DEX consistency failed"
    ELSE IF profit # NONE /\ ~profit.ok THEN "Profit guard failed"
    ELSE "none"

\* C3: evaluate_trade ends in exactly one terminal state: APPROVED iff all
\* five gates pass, otherwise REJECTED with the reason of the first failing
\* gate in gate order.
C3_OneTerminalState ==
    /\ ev_pc \in {"idle", "whitelist", "oracle", "liquidity", "dex", "profit",
                  "returned"}
    /\ ev_pc = "returned" =>
         /\ decision # NONE
         /\ decision.allowed <=>
              /\ WhitelistPassed
              /\ Passed(oracle) /\ Passed(liquidity)
              /\ Passed(dex_check) /\ Passed(profit)
         /\ ~decision.allowed => decision.reason = FirstFailure

\* C5: evaluate_trade returns a Decision and does not raise, for every
\* input (empty or single-entry dex_prices, zero prices, trade_size, reserve)
C5_NeverRaises == ev_pc # "raised"

NoFeed ==
    /\ ev_args # NONE
    /\ \/ get_symbol(ev_args.base_token) \notin CHAINLINK_FEEDS
       \/ get_symbol(ev_args.quote_token) \notin CHAINLINK_FEEDS

\* a feed read of this evaluation failed or returned stale data
FeedReadFailed == \E i \in FeedReads : ReadRaises(ev_reads[i].out)

\* the oracle gate has run and let the chain go on to the liquidity gate
OracleGatePassed ==
    /\ Passed(oracle)
    /\ ev_pc = "returned" => decision.reason # "Oracle guard failed"

CandidateOpportunity ==
    LET D == DOMAIN ev_args.dex_prices
        amount_in == ev_args.trade_size * 10000
    IN  [amount_in |-> amount_in,
         sell_amount_out |-> (amount_in * SetMax(ev_args.dex_prices, D))
                             \div SetMin(ev_args.dex_prices, D)]

ProfitModelVerdict(use_flash_loan) ==
    calculate_direct_arb_profit(CandidateOpportunity, use_flash_loan,
                                AAVE_FLASH_LOAN_FEE_BPS,
                                DEFAULT_SLIPPAGE_DIRECT, gas_price_gwei,
                                100, MATIC_PRICE_CENTS).is_profitable

Carries(details, key, result) ==
    \/ key \in DOMAIN details /\ details[key] = result
    \/ \A f \in DOMAIN result : f \in DOMAIN details /\ details[f] = result[f]

-----------------------------------------------------------------------------
(* bot/quote_engine.py: get_quote and aggregate_quotes                     *)
(* Token amounts are integers (smallest units); a price is the fraction    *)
(* amount_out / amount_in.                                                 *)

NumAggDex == 3         \* longest venue list passed to aggregate_quotes

\* DEXES of bot/pairs.py: the fee of each venue
DEXES == [quickswap |-> [fee_bps |-> 30], sushiswap |-> [fee_bps |-> 30],
          apeswap |-> [fee_bps |-> 20], dfyn |-> [fee_bps |-> 30],
          meshswap |-> [fee_bps |-> 30]]

\* venue lists: the leading DEXES keys, and one naming an unknown venue
DexLists == {SubSeq(DexNames, 1, n) : n \in 0..NumAggDex}
            \cup {<<"quickswap", "balancer">>}

AggAmountsIn == {0, 2000}
AmountsOut == {0, 1990, 2010}

\* what the router call of one get_quote does: getAmountsOut returns
\* amounts, the call fails inside the try block, or building the router
\* contract raises before it
VenueReplies == {[kind |-> "amounts", out |-> a] : a \in AmountsOut}
                \cup {[kind |-> "revert", out |-> 0],
                      [kind |-> "contract_error", out |-> 0]}

Quote(dex, token_in, token_out, amount_in, amount_out, price, fee_bps, is_valid, error) ==
    [dex |-> dex, token_in |-> token_in, token_out |-> token_out,
     amount_in |-> amount_in, amount_out |-> amount_out, price |-> price,
     fee_bps |-> fee_bps, is_valid |-> is_valid, error |-> error]

\* _get_router raises (outside get_quote's try block)
GetQuoteRaises(dex_name, reply) ==
    dex_name \in DOMAIN DEXES /\ reply.kind = "contract_error"

get_quote(dex_name, token_in, token_out, amount_in, reply) ==
    IF dex_name \notin DOMAIN DEXES
    THEN Quote(dex_name, token_in, token_out, amount_in, 0, Frac(0, 1), 0,
               FALSE, "DEX not found")
    ELSE IF reply.kind = "amounts"
    THEN Quote(dex_name, token_in, token_out, amount_in, reply.out,
               IF amount_in > 0 THEN Frac(reply.out, amount_in)
               ELSE Frac(0, 1),
               DEXES[dex_name].fee_bps, TRUE, "")
    ELSE Quote(dex_name, token_in, token_out, amount_in, 0, Frac(0, 1),
               DEXES[dex_name].fee_bps, FALSE, "call failed")

\* quotes[dex] = quote on a dict kept as its items in insertion order
DictPut(items, dex, quote) ==
    IF \E i \in 1..Len(items) : items[i].dex = dex
    THEN [i \in 1..Len(items) |->
            IF items[i].dex = dex THEN quote ELSE items[i]]
    ELSE Append(items, quote)

\* max(valid_quotes, key=amount_out) and min(...): the first such element
BestQuote(qs) ==
    qs[CHOOSE i \in 1..Len(qs) :
         /\ \A j \in 1..Len(qs) : qs[j].amount_out <= qs[i].amount_out
         /\ \A j \in 1..(i - 1) : qs[j].amount_out < qs[i].amount_out]

WorstQuote(qs) ==
    qs[CHOOSE i \in 1..Len(qs) :
         /\ \A j \in 1..Len(qs) : qs[j].amount_out >= qs[i].amount_out
         /\ \A j \in 1..(i - 1) : qs[j].amount_out > qs[i].amount_out]

\* int(((best.price - worst.price) / mid_price) * 10000); the quotes of one
\* call share amount_in, so the price ratio is the ratio of the amounts out
SpreadBps(best, worst) ==
    IF best.price.n + worst.price.n > 0
    THEN Trunc((best.amount_out - worst.amount_out) * 20000,
               best.amount_out + worst.amount_out)
    ELSE 0

\* the AggregatedQuotes built from the collected quotes
AggregatedQuotes(token_in, token_out, amount_in, quotes) ==
    IF quotes = <<>>
    THEN [token_in |-> token_in, token_out |-> token_out,
          amount_in |-> amount_in, quotes |-> <<>>, best_quote |-> NONE,
          worst_quote |-> NONE, spread_bps |-> 0]
    ELSE LET valid_quotes == SelectSeq(quotes, LAMBDA q : q.is_valid)
             best == BestQuote(valid_quotes)
             worst == WorstQuote(valid_quotes)
         IN  [token_in |-> token_in, token_out |-> token_out,
              amount_in |-> amount_in, quotes |-> quotes,
              best_quote |-> best, worst_quote |-> worst,
              spread_bps |-> SpreadBps(best, worst)]

\* a caller invokes aggregate_quotes; the pool is built (max_workers =
\* len(dex_list), which raises ValueError at 0) and one get_quote is
\* submitted per list entry
AggregateQuotesCall ==
    /\ ag_pc = "idle"
    /\ \E dl \in DexLists, a \in AggAmountsIn :
         /\ ag_args' = [token_in |-> "WMATIC", token_out |-> "USDC_LEGACY",
                        amount_in |-> a, dex_list |-> dl]
         /\ IF dl = <<>>
            THEN ag_pc' = "raised" /\ UNCHANGED ag_futures
            ELSE /\ ag_pc' = "collecting"
                 /\ ag_futures' = [i \in 1..Len(dl) |->
                                     [dex |-> dl[i], state |-> "running",
                                      result |-> NONE]]
    /\ UNCHANGED <<ag_quotes, ag_result>>
    /\ UNCHANGED notAgg

\* worker thread: get_quote of list entry i returns or raises
VenueAnswers(i) ==
    /\ ag_pc = "collecting"
    /\ ag_futures[i].state = "running"
    /\ \E reply \in VenueReplies :
         ag_futures' = [ag_futures EXCEPT
           ![i] = [dex |-> @.dex, state |-> "done",
                   result |->
                     IF GetQuoteRaises(@.dex, reply) THEN [raised |-> TRUE]
                     ELSE get_quote(@.dex, ag_args.token_in,
                                    ag_args.token_out, ag_args.amount_in,
                                    reply)]]
    /\ UNCHANGED <<ag_pc, ag_args, ag_quotes, ag_result>>
    /\ UNCHANGED notAgg

\* the venue of list entry i never answers: the router call does not return
VenueNeverAnswers(i) ==
    /\ ag_pc = "collecting"
    /\ ag_futures[i].state = "running"
    /\ ag_futures' = [ag_futures EXCEPT ![i].state = "silent"]
    /\ UNCHANGED <<ag_pc, ag_args, ag_quotes, ag_result>>
    /\ UNCHANGED notAgg

\* fault injection for C8: a join in which a failed venue loses the batch
CollectQuote_failure_aborts(i) ==
    /\ ag_pc = "collecting"
    /\ ag_futures[i].state = "done"
    /\ ag_futures' = [ag_futures EXCEPT ![i].state = "collected"]
    /\ LET quote == ag_futures[i].result
       IN  ag_quotes' = IF "raised" \in DOMAIN quote THEN <<>>
                        ELSE IF quote.is_valid
                        THEN DictPut(ag_quotes, ag_futures[i].dex, quote)
                        ELSE <<>>
    /\ UNCHANGED <<ag_pc, ag_args, ag_result>>
    /\ UNCHANGED notAgg

\* main thread: as_completed yields the finished future i; its quote is
\* kept when valid, an exception of future.result() is swallowed
CollectQuote(i) ==
    /\ ag_pc = "collecting"
    /\ ag_futures[i].state = "done"
    /\ ag_futures' = [ag_futures EXCEPT ![i].state = "collected"]
    /\ LET quote == ag_futures[i].result
       IN  ag_quotes' = IF "raised" \in DOMAIN quote THEN ag_quotes
                        ELSE IF quote.is_valid
                        THEN DictPut(ag_quotes, ag_futures[i].dex, quote)
                        ELSE ag_quotes
    /\ UNCHANGED <<ag_pc, ag_args, ag_result>>
    /\ UNCHANGED notAgg

\* as_completed is exhausted (it has no timeout: every future was yielded)
\* and the pool has shut down; best, worst and spread are computed
AggregateQuotesReturn ==
    /\ ag_pc = "collecting"
    /\ \A i \in DOMAIN ag_futures : ag_futures[i].state = "collected"
    /\ ag_result' = AggregatedQuotes(ag_args.token_in, ag_args.token_out,
                                     ag_args.amount_in, ag_quotes)
    /\ ag_pc' = "returned"
    /\ UNCHANGED <<ag_args, ag_futures, ag_quotes>>
    /\ UNCHANGED notAgg

AggNext ==
    \/ AggregateQuotesCall
    \/ \E i \in DOMAIN ag_futures : VenueAnswers(i)
    \/ \E i \in DOMAIN ag_futures : VenueNeverAnswers(i)
    \/ \E i \in DOMAIN ag_futures : CollectQuote(i)
    \/ AggregateQuotesReturn

AggSpec == Init /\ [][AggNext]_vars

-----------------------------------------------------------------------------
(* Properties of quote aggregation (AggSpec) *)

\* list entries whose get_quote returned a valid quote
ValidEntries ==
    {i \in DOMAIN ag_futures :
       /\ ag_futures[i].state \in {"done", "collected"}
       /\ "is_valid" \in DOMAIN ag_futures[i].result
       /\ ag_futures[i].result.is_valid}

\* entries whose get_quote returned an invalid quote or raised
FailedEntries ==
    {i \in DOMAIN ag_futures :
       /\ ag_futures[i].state \in {"done", "collected"}
       /\ i \notin ValidEntries}

QuotedVenues(items) == {items[i].dex : i \in 1..Len(items)}

\* C8: for a non-empty venue list and any set of venues whose quote call
\* fails or raises, aggregate_quotes returns without raising; the quotes
\* map holds exactly the venues that produced a valid quote (with that
\* quote), and it is non-empty with best_quote and worst_quote set whenever
\* a venue succeeded.
C8_FailureIsolation ==
    /\ (ag_args # NONE /\ ag_args.dex_list # <<>>) => ag_pc # "raised"
    /\ ag_pc = "returned" =>
         /\ QuotedVenues(ag_result.quotes) =
              {ag_futures[i].dex : i \in ValidEntries}
         /\ \A k \in 1..Len(ag_result.quotes) :
              \E i \in ValidEntries :
                 ag_futures[i].result = ag_result.quotes[k]
         /\ ValidEntries # {} =>
              /\ ag_result.quotes # <<>>
              /\ ag_result.best_quote # NONE
              /\ ag_result.worst_quote # NONE
              /\ \A i \in ValidEntries :
                   /\ ag_futures[i].result.amount_out
                        <= ag_result.best_quote.amount_out
                   /\ ag_futures[i].result.amount_out
                        >= ag_result.worst_quote.amount_out
         /\ ValidEntries = {} =>
              /\ ag_result.quotes = <<>>
              /\ ag_result.best_quote = NONE

\* C8 witness: three venues, one reverted, one raised, one quoted; the call
\* returned the one quote
C8_Witness ==
    /\ ag_pc = "returned"
    /\ Len(ag_args.dex_list) = 3
    /\ Cardinality(ValidEntries) = 1
    /\ \E i, j \in FailedEntries :
         /\ "raised" \in DOMAIN ag_futures[i].result
         /\ "is_valid" \in DOMAIN ag_futures[j].result
    /\ Len(ag_result.quotes) = 1
    /\ ag_result.best_quote = ag_result.quotes[1]

\* a step of aggregate_quotes or of one of its workers
AggProgress ==
    \/ \E i \in DOMAIN ag_futures : VenueAnswers(i)
    \/ \E i \in DOMAIN ag_futures : CollectQuote(i)
    \/ AggregateQuotesReturn

\* C9: aggregation is joined by a deadline: with a venue that never
\* answers, aggregate_quotes still returns; it never waits without bound.
\* Stated on finite runs: a call that has not returned can take a step.
C9_JoinHasDeadline == ag_pc = "collecting" => ENABLED AggProgress

-----------------------------------------------------------------------------
(* bot/arbitrage_scanner.py: direct search *)

NumScanDex == 3        \* venues that answer the forward leg of a scan

ScanAmountsIn == {3000}
ForwardOuts == {2990, 3010}
\* on 3000: 1 is 3 bps, 2 is 6 bps, 3 is 10 bps, 10 is 33 bps
ReverseOuts == {0, 3000, 3001, 3002, 3003, 3010}
ScanMinProfitBps == {5, 10}       \* the bot's scanner uses 5, the default is 10
\* FastArbitrageScanner(w3, min_profit_bps=...): also 0, any positive profit
FastMinProfitBps == ScanMinProfitBps \cup {0}

\* the router call of a reverse get_quote (the router is cached by then)
ReverseReplies == {[kind |-> "amounts", out |-> a] : a \in ReverseOuts}
                  \cup {[kind |-> "revert", out |-> 0]}

\* the sequences without repetition over S, of length n
RECURSIVE InjSeqs(_, _)
InjSeqs(S, n) ==
    IF n = 0 THEN {<<>>}
    ELSE UNION {{Append(q, x) : x \in S \ {q[i] : i \in 1..Len(q)}} :
                q \in InjSeqs(S, n - 1)}

\* what aggregate_quotes can hold in quotes when it returns: valid quotes of
\* distinct venues, in the order the futures completed
ForwardQuoteItems(token_in, token_out, amount_in) ==
    UNION {
      UNION {
        {[i \in 1..n |->
            get_quote(ds[i], token_in, token_out, amount_in,
                      [kind |-> "amounts", out |-> outs[i]])] :
         outs \in [1..n -> ForwardOuts]} :
        ds \in InjSeqs({DexNames[i] : i \in 1..NumScanDex}, n)} :
      n \in 0..NumScanDex}

\* the k-th (buy, sell) iteration of the nested loop over n quotes
LoopPair(k, n) ==
    LET i == (k - 1) \div (n - 1) + 1
        r == ((k - 1) % (n - 1)) + 1
    IN  <<i, IF r < i THEN r ELSE r + 1>>

DirectArbOpportunity(opportunity_id, token_a, token_b, amount_in, buy_quote, sell_quote, gross_profit, gross_profit_bps) ==
    [opportunity_id |-> opportunity_id, token_a |-> token_a,
     token_b |-> token_b, amount_in |-> amount_in,
     buy_dex |-> buy_quote.dex, buy_amount_out |-> buy_quote.amount_out,
     buy_price |-> buy_quote.price,
     sell_dex |-> sell_quote.dex, sell_amount_out |-> sell_quote.amount_out,
     sell_price |-> sell_quote.price,
     gross_profit |-> gross_profit, gross_profit_bps |-> gross_profit_bps]

\* _generate_opportunity_id after the counter was incremented to n
OpportunityId(prefix, n) == [prefix |-> prefix, counter |-> n]

\* a caller invokes scan_direct_arbitrage; the forward leg is aggregated
ScanDirectCall ==
    /\ sc_pc = "idle"
    /\ \E m \in ScanMinProfitBps, a \in ScanAmountsIn :
       \E items \in ForwardQuoteItems("WMATIC", "USDC_LEGACY", a) :
         /\ sc_args' = [scanner |-> "ArbitrageScanner", token_a |-> "WMATIC",
                        token_b |-> "USDC_LEGACY", amount_in |-> a,
                        min_profit_bps |-> m]
         /\ sc_forward' = AggregatedQuotes("WMATIC", "USDC_LEGACY", a, items)
         /\ IF Len(items) < 2
            THEN sc_pc' = "returned" /\ sc_k' = 0
            ELSE sc_pc' = "loop" /\ sc_k' = 1
    /\ sc_best_profit' = 0
    /\ sc_best_opp' = NONE
    /\ sc_result' = NONE
    /\ sc_requests' = <<>>
    /\ sc_cleared' = {}
    /\ UNCHANGED sc_counter
    /\ UNCHANGED notScan

\* fault injection for C10: a loop without the basis-point floor
ScanDirectStep_no_floor ==
    /\ sc_pc = "loop"
    /\ \E reply \in ReverseReplies :
       LET n == Len(sc_forward.quotes)
           pair == LoopPair(sc_k, n)
           buy_quote == sc_forward.quotes[pair[1]]
           sell_dex == sc_forward.quotes[pair[2]].dex
           sell_quote == get_quote(sell_dex, sc_args.token_b, sc_args.token_a,
                                   buy_quote.amount_out, reply)
           gross_profit == sell_quote.amount_out - sc_args.amount_in
           gross_profit_bps == Trunc(gross_profit * 10000, sc_args.amount_in)
           better == /\ sell_quote.is_valid
                     /\ gross_profit > 0
                     /\ gross_profit > sc_best_profit
           clears == sell_quote.is_valid /\ gross_profit > 0
           best_opp == IF better
                       THEN DirectArbOpportunity(
                              OpportunityId("ARB", sc_counter + 1),
                              sc_args.token_a, sc_args.token_b,
                              sc_args.amount_in, buy_quote, sell_quote,
                              gross_profit, gross_profit_bps)
                       ELSE sc_best_opp
       IN  /\ sc_best_opp' = best_opp
           /\ sc_best_profit' = IF better THEN gross_profit
                                ELSE sc_best_profit
           /\ sc_counter' = IF better THEN sc_counter + 1 ELSE sc_counter
           /\ sc_requests' = Append(sc_requests,
                                    [dex |-> sell_dex, buy_dex |-> buy_quote.dex,
                                     token_in |-> sc_args.token_b,
                                     token_out |-> sc_args.token_a,
                                     amount_in |-> buy_quote.amount_out])
           /\ sc_cleared' = IF clears THEN sc_cleared \cup {gross_profit}
                             ELSE sc_cleared
           /\ IF sc_k < n * (n - 1)
              THEN /\ sc_k' = sc_k + 1
                   /\ UNCHANGED <<sc_pc, sc_result>>
              ELSE /\ sc_pc' = "returned"
                   /\ sc_result' = best_opp
                   /\ UNCHANGED sc_k
    /\ UNCHANGED <<sc_args, sc_forward>>
    /\ UNCHANGED notScan

\* fault injection for C11: a loop that keeps the first candidate it finds
ScanDirectStep_keeps_first ==
    /\ sc_pc = "loop"
    /\ \E reply \in ReverseReplies :
       LET n == Len(sc_forward.quotes)
           pair == LoopPair(sc_k, n)
           buy_quote == sc_forward.quotes[pair[1]]
           sell_dex == sc_forward.quotes[pair[2]].dex
           sell_quote == get_quote(sell_dex, sc_args.token_b, sc_args.token_a,
                                   buy_quote.amount_out, reply)
           gross_profit == sell_quote.amount_out - sc_args.amount_in
           gross_profit_bps == Trunc(gross_profit * 10000, sc_args.amount_in)
           better == /\ sell_quote.is_valid
                     /\ gross_profit > 0
                     /\ gross_profit_bps >= sc_args.min_profit_bps
                     /\ sc_best_opp = NONE
           clears == /\ sell_quote.is_valid
                     /\ gross_profit > 0
                     /\ gross_profit_bps >= sc_args.min_profit_bps
           best_opp == IF better
                       THEN DirectArbOpportunity(
                              OpportunityId("ARB", sc_counter + 1),
                              sc_args.token_a, sc_args.token_b,
                              sc_args.amount_in, buy_quote, sell_quote,
                              gross_profit, gross_profit_bps)
                       ELSE sc_best_opp
       IN  /\ sc_best_opp' = best_opp
           /\ sc_best_profit' = IF better THEN gross_profit
                                ELSE sc_best_profit
           /\ sc_counter' = IF better THEN sc_counter + 1 ELSE sc_counter
           /\ sc_requests' = Append(sc_requests,
                                    [dex |-> sell_dex, buy_dex |-> buy_quote.dex,
                                     token_in |-> sc_args.token_b,
                                     token_out |-> sc_args.token_a,
                                     amount_in |-> buy_quote.amount_out])
           /\ sc_cleared' = IF clears THEN sc_cleared \cup {gross_profit}
                             ELSE sc_cleared
           /\ IF sc_k < n * (n - 1)
              THEN /\ sc_k' = sc_k + 1
                   /\ UNCHANGED <<sc_pc, sc_result>>
              ELSE /\ sc_pc' = "returned"
                   /\ sc_result' = best_opp
                   /\ UNCHANGED sc_k
    /\ UNCHANGED <<sc_args, sc_forward>>
    /\ UNCHANGED notScan

\* one iteration of the nested loop: the reverse quote of the sell venue
\* for the amount bought, then the three filters and the comparison
ScanDirectStep ==
    /\ sc_pc = "loop"
    /\ \E reply \in ReverseReplies :
       LET n == Len(sc_forward.quotes)
           pair == LoopPair(sc_k, n)
           buy_quote == sc_forward.quotes[pair[1]]
           sell_dex == sc_forward.quotes[pair[2]].dex
           sell_quote == get_quote(sell_dex, sc_args.token_b, sc_args.token_a,
                                   buy_quote.amount_out, reply)
           gross_profit == sell_quote.amount_out - sc_args.amount_in
           gross_profit_bps == Trunc(gross_profit * 10000, sc_args.amount_in)
           better == /\ sell_quote.is_valid
                     /\ gross_profit > 0
                     /\ gross_profit_bps >= sc_args.min_profit_bps
                     /\ gross_profit > sc_best_profit
           clears == /\ sell_quote.is_valid
                     /\ gross_profit > 0
                     /\ gross_profit_bps >= sc_args.min_profit_bps
           best_opp == IF better
                       THEN DirectArbOpportunity(
                              OpportunityId("ARB", sc_counter + 1),
                              sc_args.token_a, sc_args.token_b,
                              sc_args.amount_in, buy_quote, sell_quote,
                              gross_profit, gross_profit_bps)
                       ELSE sc_best_opp
       IN  /\ sc_best_opp' = best_opp
           /\ sc_best_profit' = IF better THEN gross_profit
                                ELSE sc_best_profit
           /\ sc_counter' = IF better THEN sc_counter + 1 ELSE sc_counter
           /\ sc_requests' = Append(sc_requests,
                                    [dex |-> sell_dex, buy_dex |-> buy_quote.dex,
                                     token_in |-> sc_args.token_b,
                                     token_out |-> sc_args.token_a,
                                     amount_in |-> buy_quote.amount_out])
           /\ sc_cleared' = IF clears THEN sc_cleared \cup {gross_profit}
                             ELSE sc_cleared
           /\ IF sc_k < n * (n - 1)
              THEN /\ sc_k' = sc_k + 1
                   /\ UNCHANGED <<sc_pc, sc_result>>
              ELSE /\ sc_pc' = "returned"
                   /\ sc_result' = best_opp
                   /\ UNCHANGED sc_k
    /\ UNCHANGED <<sc_args, sc_forward>>
    /\ UNCHANGED notScan

\* a caller invokes FastArbitrageScanner._scan_single_pair: the forward
\* leg is aggregated over all venues and screened by its spread
FastScanCall ==
    /\ sc_pc = "idle"
    /\ \E m \in FastMinProfitBps, a \in ScanAmountsIn :
       \E items \in ForwardQuoteItems("WMATIC", "USDC_LEGACY", a) :
       LET forward == AggregatedQuotes("WMATIC", "USDC_LEGACY", a, items)
       IN  /\ sc_args' = [scanner |-> "FastArbitrageScanner",
                          token_a |-> "WMATIC", token_b |-> "USDC_LEGACY",
                          amount_in |-> a, min_profit_bps |-> m]
           /\ sc_forward' = forward
           /\ sc_pc' = IF forward.best_quote = NONE
                          \/ forward.worst_quote = NONE
                          \/ forward.spread_bps < m
                       THEN "returned" ELSE "reverse"
    /\ sc_result' = NONE
    /\ sc_requests' = <<>>
    /\ sc_cleared' = {}
    /\ UNCHANGED <<sc_k, sc_best_profit, sc_best_opp, sc_counter>>
    /\ UNCHANGED notScan

\* the reverse quote on the venue of the worst forward quote, then the
\* filters
FastScanReverse ==
    /\ sc_pc = "reverse"
    /\ \E reply \in ReverseReplies :
       LET best_buy == sc_forward.best_quote
           sell_quote == get_quote(sc_forward.worst_quote.dex,
                                   sc_args.token_b, sc_args.token_a,
                                   best_buy.amount_out, reply)
           gross_profit == sell_quote.amount_out - sc_args.amount_in
           gross_profit_bps == Trunc(gross_profit * 10000, sc_args.amount_in)
           found == /\ sell_quote.is_valid
                    /\ gross_profit > 0
                    /\ gross_profit_bps >= sc_args.min_profit_bps
       IN  /\ sc_counter' = IF found THEN sc_counter + 1 ELSE sc_counter
           /\ sc_requests' = Append(sc_requests,
                                    [dex |-> sc_forward.worst_quote.dex,
                                     buy_dex |-> best_buy.dex,
                                     token_in |-> sc_args.token_b,
                                     token_out |-> sc_args.token_a,
                                     amount_in |-> best_buy.amount_out])
           /\ sc_cleared' = IF found THEN sc_cleared \cup {gross_profit}
                             ELSE sc_cleared
           /\ sc_result' =
                IF found
                THEN DirectArbOpportunity(
                       OpportunityId("FAST", sc_counter + 1),
                       sc_args.token_a, sc_args.token_b, sc_args.amount_in,
                       best_buy, sell_quote, gross_profit, gross_profit_bps)
                ELSE NONE
    /\ sc_pc' = "returned"
    /\ UNCHANGED <<sc_args, sc_forward, sc_k, sc_best_profit, sc_best_opp>>
    /\ UNCHANGED notScan

ScanNext ==
    \/ ScanDirectCall
    \/ ScanDirectStep
    \/ FastScanCall
    \/ FastScanReverse

ScanSpec == Init /\ [][ScanNext]_vars

-----------------------------------------------------------------------------
(* Properties of direct search (ScanSpec) *)

\* the invariant of a DirectArbOpportunity created by a scanner with floor m
SoundOpportunity(opp, amount_in, m) ==
    /\ opp.gross_profit > 0
    /\ opp.gross_profit = opp.sell_amount_out - opp.amount_in
    /\ opp.amount_in = amount_in
    /\ opp.gross_profit_bps >= m

\* C10: every DirectArbOpportunity returned by scan_direct_arbitrage or
\* _scan_single_pair has gross_profit > 0, gross_profit = sell_amount_out -
\* amount_in and gross_profit_bps >= the scanner's min_profit_bps, whatever
\* the venues quoted.
C10_ReturnedOpportunitySound ==
    /\ (sc_pc = "returned" /\ sc_result # NONE) =>
         SoundOpportunity(sc_result, sc_args.amount_in,
                          sc_args.min_profit_bps)
    /\ sc_best_opp # NONE =>
         SoundOpportunity(sc_best_opp, sc_args.amount_in,
                          sc_args.min_profit_bps)

\* C10 witness: a returned opportunity exactly at a floor of 10 bps (gross
\* profit 3 on 3000), the first one the scanner created
C10_Witness ==
    /\ sc_pc = "returned"
    /\ sc_result # NONE
    /\ sc_args.min_profit_bps = 10
    /\ sc_result.gross_profit_bps = 10
    /\ sc_result.gross_profit = 3
    /\ sc_result.opportunity_id.counter = 1

\* the forward quote of venue d in the aggregated forward leg
ForwardQuoteOf(d) ==
    LET i == CHOOSE i \in 1..Len(sc_forward.quotes) :
                 sc_forward.quotes[i].dex = d
    IN  sc_forward.quotes[i]

ForwardVenues == {sc_forward.quotes[i].dex : i \in 1..Len(sc_forward.quotes)}

DirectSearchReturned ==
    sc_pc = "returned" /\ sc_args.scanner = "ArbitrageScanner"

\* C11: when scan_direct_arbitrage returns, it has requested a reverse quote
\* for every ordered pair of distinct venues (buy, sell) with a valid forward
\* quote, each with the buy venue's amount_out as amount_in, and the result
\* is None when no candidate cleared profit > 0 and the bps floor, otherwise
\* a candidate over two distinct forward venues whose gross profit is the
\* maximum over the candidates that cleared them.
C11_ExhaustiveMaximum ==
    DirectSearchReturned =>
      /\ {<<sc_requests[i].buy_dex, sc_requests[i].dex>> :
             i \in 1..Len(sc_requests)}
           = {p \in ForwardVenues \X ForwardVenues :
                 p[1] # p[2] /\ Len(sc_forward.quotes) >= 2}
      /\ \A i \in 1..Len(sc_requests) :
           /\ sc_requests[i].amount_in
                = ForwardQuoteOf(sc_requests[i].buy_dex).amount_out
           /\ sc_requests[i].token_in = sc_args.token_b
           /\ sc_requests[i].token_out = sc_args.token_a
      /\ (sc_cleared = {}) <=> (sc_result = NONE)
      /\ sc_result # NONE =>
           /\ sc_result.gross_profit \in sc_cleared
           /\ \A g \in sc_cleared : g <= sc_result.gross_profit
           /\ sc_result.buy_dex \in ForwardVenues
           /\ sc_result.sell_dex \in ForwardVenues \ {sc_result.buy_dex}
           /\ sc_result.buy_amount_out
                = ForwardQuoteOf(sc_result.buy_dex).amount_out

\* C11 witness: three venues quoted forward, six reverse quotes requested,
\* several candidates cleared the filters with different profits, and the
\* one returned was not the first candidate created
C11_Witness ==
    /\ DirectSearchReturned
    /\ Len(sc_forward.quotes) = 3
    /\ Len(sc_requests) = 6
    /\ Cardinality(sc_cleared) >= 2
    /\ sc_result # NONE
    /\ sc_result.opportunity_id.counter >= 2
    /\ sc_result.gross_profit = 10

\* C29: every DirectArbOpportunity returned by scan_direct_arbitrage or by
\* _scan_single_pair has buy_dex # sell_dex, for every set of venue quotes
\* (a single responding venue, venues quoting equal amounts) and every
\* configured min_profit_bps.
C29_DistinctVenues ==
    /\ (sc_pc = "returned" /\ sc_result # NONE) =>
         sc_result.buy_dex # sc_result.sell_dex
    /\ sc_best_opp # NONE => sc_best_opp.buy_dex # sc_best_opp.sell_dex

-----------------------------------------------------------------------------
(* bot/arbitrage_scanner.py: triangular search and the batch over routes *)

NumTriDex == 2         \* venues of DEXES a triangular search goes through

TRIANGULAR_ROUTES == <<<<"USDC_LEGACY", "WMATIC", "WETH">>,
                       <<"WMATIC", "USDC_LEGACY", "WETH">>>>

\* text that is not a hex address
MalformedAddresses == {"0xBAD"}

\* Web3.to_checksum_address raises ValueError on such text
ToChecksumRaises(address) == address \in MalformedAddresses

\* get_quote calls get_decimals(token_in), get_decimals(token_out) before
\* its try block
GetDecimalsRaises(token_in, token_out) ==
    ToChecksumRaises(token_in) \/ ToChecksumRaises(token_out)

\* the routes a caller passes to scan_all_triangular: lists with a route
\* that has a malformed token address (full_scan goes through the default)
TriRouteLists == {<<<<"USDC_LEGACY", "0xBAD", "WETH">>, TRIANGULAR_ROUTES[1]>>,
                  <<TRIANGULAR_ROUTES[1], <<"USDC_LEGACY", "WMATIC", "0xBAD">>>>}

TriAmountsIn == {10000}
TriMinProfitBps == {5, 10}        \* the bot's scanner uses 5, the default is 10
\* amounts of the intermediate tokens
TriLegOuts == {0, 500}
\* on 10000: 10008 is 8 bps, 10010 is 10 bps
TriFinalOuts == {0, 10000, 10008, 10010, 10020}

TriLegReplies == {[kind |-> "amounts", out |-> a] : a \in TriLegOuts}
                 \cup {[kind |-> "revert", out |-> 0]}
TriFinalReplies == {[kind |-> "amounts", out |-> a] : a \in TriFinalOuts}
                   \cup {[kind |-> "revert", out |-> 0]}

\* list(DEXES.keys()), cut to the venues modelled
TriDexList == [i \in 1..NumTriDex |-> DexNames[i]]

TriangularArbOpportunity(opportunity_id, token_a, token_b, token_c, amount_in, quote1, quote2, quote3, gross_profit, gross_profit_bps) ==
    [opportunity_id |-> opportunity_id, token_a |-> token_a,
     token_b |-> token_b, token_c |-> token_c, amount_in |-> amount_in,
     leg1_dex |-> quote1.dex, leg1_amount_out |-> quote1.amount_out,
     leg1_price |-> quote1.price,
     leg2_dex |-> quote2.dex, leg2_amount_out |-> quote2.amount_out,
     leg2_price |-> quote2.price,
     leg3_dex |-> quote3.dex, leg3_amount_out |-> quote3.amount_out,
     leg3_price |-> quote3.price,
     final_amount |-> quote3.amount_out,
     gross_profit |-> gross_profit, gross_profit_bps |-> gross_profit_bps]

\* where the nested for loops go after the iteration at the given level
\* ends (continue, or the end of the body): the next dex of that loop, or
\* of the enclosing loop when it is exhausted
TriAdvance(level, i, n) ==
    IF level = 3 /\ i[3] < n
    THEN [pc |-> "leg3", i |-> <<i[1], i[2], i[3] + 1>>]
    ELSE IF level >= 2 /\ i[2] < n
    THEN [pc |-> "leg2", i |-> <<i[1], i[2] + 1, 0>>]
    ELSE IF i[1] < n
    THEN [pc |-> "leg1", i |-> <<i[1] + 1, 0, 0>>]
    ELSE [pc |-> "returned", i |-> i]

\* sorted(opportunities, key=gross_profit_bps, reverse=True): stable
RECURSIVE SortedByBpsDesc(_)
SortedByBpsDesc(opps) ==
    IF opps = <<>> THEN <<>>
    ELSE LET k == CHOOSE k \in 1..Len(opps) :
                    /\ \A j \in 1..Len(opps) :
                         opps[j].gross_profit_bps <= opps[k].gross_profit_bps
                    /\ \A j \in 1..(k - 1) :
                         opps[j].gross_profit_bps < opps[k].gross_profit_bps
         IN  <<opps[k]>> \o
             SortedByBpsDesc([j \in 1..(Len(opps) - 1) |->
                                IF j < k THEN opps[j] ELSE opps[j + 1]])

\* get_symbol goes through get_token_info, which checksums the address
GetSymbolRaises(address) == ToChecksumRaises(address)

ScanResult(routes_scanned, triangular_opps, errors) ==
    [routes_scanned |-> routes_scanned,
     triangular_opportunities |-> triangular_opps,
     best_triangular |-> IF triangular_opps # <<>> THEN triangular_opps[1]
                         ELSE NONE,
     errors |-> errors]

trSearchVars == <<tr_pc, tr_args, tr_i, tr_q1, tr_q2, tr_best_profit,
                  tr_best_opp, tr_counter, tr_result, tr_best_legs, tr_req,
                  tr_legs>>
tbVars == <<tb_pc, tb_args, tb_idx, tb_opps, tb_log, tb_outcomes, tb_result>>

\* a caller invokes scan_all_triangular(amount_in, routes), or
\* full_scan(amount_in, include_direct=False), which calls
\* scan_all_triangular(amount_in) over TRIANGULAR_ROUTES
TriBatchCall ==
    /\ tb_pc = "idle"
    /\ \E entry \in {"scan_all_triangular", "full_scan"},
          a \in TriAmountsIn, m \in TriMinProfitBps :
       \E routes \in IF entry = "full_scan" THEN {TRIANGULAR_ROUTES}
                     ELSE TriRouteLists :
         tb_args' = [entry |-> entry, routes |-> routes, amount_in |-> a,
                     min_profit_bps |-> m]
    /\ tb_pc' = "loop"
    /\ tb_idx' = 1
    /\ tb_opps' = <<>>
    /\ tb_log' = <<>>
    /\ tb_outcomes' = <<>>
    /\ tb_result' = NONE
    /\ UNCHANGED trSearchVars
    /\ UNCHANGED notTri

\* the batch calls scan_triangular_arbitrage for the next route
TriSearchCall ==
    /\ tb_pc = "loop"
    /\ tr_pc = "idle"
    /\ LET route == tb_args.routes[tb_idx]
       IN  tr_args' = [token_a |-> route[1], token_b |-> route[2],
                       token_c |-> route[3],
                       amount_in |-> tb_args.amount_in,
                       min_profit_bps |-> tb_args.min_profit_bps,
                       dex_list |-> TriDexList]
    /\ tr_pc' = "leg1"
    /\ tr_i' = <<1, 0, 0>>
    /\ tr_q1' = NONE
    /\ tr_q2' = NONE
    /\ tr_best_profit' = 0
    /\ tr_best_opp' = NONE
    /\ tr_result' = NONE
    /\ tr_best_legs' = <<>>
    /\ tr_req' = NONE
    /\ tr_legs' = {}
    /\ UNCHANGED tr_counter
    /\ UNCHANGED tbVars
    /\ UNCHANGED notTri

\* leg 1 (A -> B) on dex1
TriLeg1 ==
    /\ tr_pc = "leg1"
    /\ LET n == Len(tr_args.dex_list)
           dex1 == tr_args.dex_list[tr_i[1]]
       IN  IF GetDecimalsRaises(tr_args.token_a, tr_args.token_b)
           THEN /\ tr_pc' = "raised"
                /\ UNCHANGED <<tr_i, tr_q1, tr_req, tr_legs, tr_result>>
           ELSE \E reply \in TriLegReplies :
                LET quote1 == get_quote(dex1, tr_args.token_a,
                                        tr_args.token_b, tr_args.amount_in,
                                        reply)
                    next == TriAdvance(1, tr_i, n)
                IN  /\ tr_req' = [path |-> <<dex1>>,
                                   amount_in |-> tr_args.amount_in]
                    /\ tr_q1' = quote1
                    /\ IF ~quote1.is_valid \/ quote1.amount_out <= 0
                       THEN /\ tr_pc' = next.pc
                            /\ tr_i' = next.i
                            /\ tr_result' = IF next.pc = "returned"
                                            THEN tr_best_opp ELSE tr_result
                            /\ tr_legs' = tr_legs \cup {<<1, "asked">>}
                       ELSE /\ tr_legs' = tr_legs \cup {<<1, "asked">>,
                                                        <<1, "usable">>}
                            /\ tr_pc' = "leg2"
                            /\ tr_i' = <<tr_i[1], 1, 0>>
                            /\ UNCHANGED tr_result
    /\ UNCHANGED <<tr_args, tr_q2, tr_best_profit, tr_best_opp, tr_counter,
                   tr_best_legs>>
    /\ UNCHANGED tbVars
    /\ UNCHANGED notTri

\* fault injection for C12: a failed leg 2 goes on to leg 3
TriLeg2_no_prune ==
    /\ tr_pc = "leg2"
    /\ LET n == Len(tr_args.dex_list)
           dex1 == tr_args.dex_list[tr_i[1]]
           dex2 == tr_args.dex_list[tr_i[2]]
       IN  IF GetDecimalsRaises(tr_args.token_b, tr_args.token_c)
           THEN /\ tr_pc' = "raised"
                /\ UNCHANGED <<tr_i, tr_q2, tr_req, tr_legs, tr_result>>
           ELSE \E reply \in TriLegReplies :
                LET quote2 == get_quote(dex2, tr_args.token_b,
                                        tr_args.token_c, tr_q1.amount_out,
                                        reply)
                    next == TriAdvance(2, tr_i, n)
                IN  /\ tr_req' = [path |-> <<dex1, dex2>>,
                                   amount_in |-> tr_q1.amount_out]
                    /\ tr_q2' = quote2
                    /\ tr_legs' = IF ~quote2.is_valid \/ quote2.amount_out <= 0
                                  THEN tr_legs \cup {<<2, "asked">>}
                                  ELSE tr_legs \cup {<<2, "asked">>,
                                                     <<2, "usable">>}
                    /\ tr_pc' = "leg3"
                    /\ tr_i' = <<tr_i[1], tr_i[2], 1>>
                    /\ UNCHANGED tr_result
    /\ UNCHANGED <<tr_args, tr_q1, tr_best_profit, tr_best_opp, tr_counter,
                   tr_best_legs>>
    /\ UNCHANGED tbVars
    /\ UNCHANGED notTri

\* leg 2 (B -> C) on dex2, for the amount leg 1 gave
TriLeg2 ==
    /\ tr_pc = "leg2"
    /\ LET n == Len(tr_args.dex_list)
           dex1 == tr_args.dex_list[tr_i[1]]
           dex2 == tr_args.dex_list[tr_i[2]]
       IN  IF GetDecimalsRaises(tr_args.token_b, tr_args.token_c)
           THEN /\ tr_pc' = "raised"
                /\ UNCHANGED <<tr_i, tr_q2, tr_req, tr_legs, tr_result>>
           ELSE \E reply \in TriLegReplies :
                LET quote2 == get_quote(dex2, tr_args.token_b,
                                        tr_args.token_c, tr_q1.amount_out,
                                        reply)
                    next == TriAdvance(2, tr_i, n)
                IN  /\ tr_req' = [path |-> <<dex1, dex2>>,
                                   amount_in |-> tr_q1.amount_out]
                    /\ tr_q2' = quote2
                    /\ IF ~quote2.is_valid \/ quote2.amount_out <= 0
                       THEN /\ tr_pc' = next.pc
                            /\ tr_i' = next.i
                            /\ tr_result' = IF next.pc = "returned"
                                            THEN tr_best_opp ELSE tr_result
                            /\ tr_legs' = tr_legs \cup {<<2, "asked">>}
                       ELSE /\ tr_legs' = tr_legs \cup {<<2, "asked">>,
                                                        <<2, "usable">>}
                            /\ tr_pc' = "leg3"
                            /\ tr_i' = <<tr_i[1], tr_i[2], 1>>
                            /\ UNCHANGED tr_result
    /\ UNCHANGED <<tr_args, tr_q1, tr_best_profit, tr_best_opp, tr_counter,
                   tr_best_legs>>
    /\ UNCHANGED tbVars
    /\ UNCHANGED notTri

\* fault injection for C13: leg 3 quoted for the initial amount
TriLeg3_from_amount_in ==
    /\ tr_pc = "leg3"
    /\ LET n == Len(tr_args.dex_list)
           dex1 == tr_args.dex_list[tr_i[1]]
           dex2 == tr_args.dex_list[tr_i[2]]
           dex3 == tr_args.dex_list[tr_i[3]]
           next == TriAdvance(3, tr_i, n)
       IN  IF GetDecimalsRaises(tr_args.token_c, tr_args.token_a)
           THEN /\ tr_pc' = "raised"
                /\ UNCHANGED <<tr_i, tr_req, tr_legs, tr_result,
                               tr_best_profit, tr_best_opp, tr_counter,
                               tr_best_legs>>
           ELSE \E reply \in TriFinalReplies :
                LET quote3 == get_quote(dex3, tr_args.token_c,
                                        tr_args.token_a, tr_args.amount_in,
                                        reply)
                    failed == ~quote3.is_valid \/ quote3.amount_out <= 0
                    final_amount == quote3.amount_out
                    gross_profit == final_amount - tr_args.amount_in
                    gross_profit_bps == Trunc(gross_profit * 10000,
                                              tr_args.amount_in)
                    better == /\ ~failed
                              /\ gross_profit > 0
                              /\ gross_profit_bps >= tr_args.min_profit_bps
                              /\ gross_profit > tr_best_profit
                    best_opp == IF better
                                THEN TriangularArbOpportunity(
                                       OpportunityId("ARB", tr_counter + 1),
                                       tr_args.token_a, tr_args.token_b,
                                       tr_args.token_c, tr_args.amount_in,
                                       tr_q1, tr_q2, quote3,
                                       gross_profit, gross_profit_bps)
                                ELSE tr_best_opp
                IN  /\ tr_req' = [path |-> <<dex1, dex2, dex3>>,
                                   amount_in |-> quote3.amount_in]
                    /\ tr_legs' = IF failed
                                  THEN tr_legs \cup {<<3, "asked">>}
                                  ELSE tr_legs \cup {<<3, "asked">>,
                                                     <<3, "usable">>}
                    /\ tr_best_opp' = best_opp
                    /\ tr_best_profit' = IF better THEN gross_profit
                                         ELSE tr_best_profit
                    /\ tr_best_legs' = IF better THEN <<tr_q1, tr_q2, quote3>>
                                       ELSE tr_best_legs
                    /\ tr_counter' = IF better THEN tr_counter + 1
                                     ELSE tr_counter
                    /\ tr_pc' = next.pc
                    /\ tr_i' = next.i
                    /\ tr_result' = IF next.pc = "returned" THEN best_opp
                                    ELSE tr_result
    /\ UNCHANGED <<tr_args, tr_q1, tr_q2>>
    /\ UNCHANGED tbVars
    /\ UNCHANGED notTri

\* leg 3 (C -> A) on dex3, for the amount leg 2 gave; then the filters
\* and the comparison with the best so far
TriLeg3 ==
    /\ tr_pc = "leg3"
    /\ LET n == Len(tr_args.dex_list)
           dex1 == tr_args.dex_list[tr_i[1]]
           dex2 == tr_args.dex_list[tr_i[2]]
           dex3 == tr_args.dex_list[tr_i[3]]
           next == TriAdvance(3, tr_i, n)
       IN  IF GetDecimalsRaises(tr_args.token_c, tr_args.token_a)
           THEN /\ tr_pc' = "raised"
                /\ UNCHANGED <<tr_i, tr_req, tr_legs, tr_result,
                               tr_best_profit, tr_best_opp, tr_counter,
                               tr_best_legs>>
           ELSE \E reply \in TriFinalReplies :
                LET quote3 == get_quote(dex3, tr_args.token_c,
                                        tr_args.token_a, tr_q2.amount_out,
                                        reply)
                    failed == ~quote3.is_valid \/ quote3.amount_out <= 0
                    final_amount == quote3.amount_out
                    gross_profit == final_amount - tr_args.amount_in
                    gross_profit_bps == Trunc(gross_profit * 10000,
                                              tr_args.amount_in)
                    better == /\ ~failed
                              /\ gross_profit > 0
                              /\ gross_profit_bps >= tr_args.min_profit_bps
                              /\ gross_profit > tr_best_profit
                    best_opp == IF better
                                THEN TriangularArbOpportunity(
                                       OpportunityId("ARB", tr_counter + 1),
                                       tr_args.token_a, tr_args.token_b,
                                       tr_args.token_c, tr_args.amount_in,
                                       tr_q1, tr_q2, quote3,
                                       gross_profit, gross_profit_bps)
                                ELSE tr_best_opp
                IN  /\ tr_req' = [path |-> <<dex1, dex2, dex3>>,
                                   amount_in |-> quote3.amount_in]
                    /\ tr_legs' = IF failed
                                  THEN tr_legs \cup {<<3, "asked">>}
                                  ELSE tr_legs \cup {<<3, "asked">>,
                                                     <<3, "usable">>}
                    /\ tr_best_opp' = best_opp
                    /\ tr_best_profit' = IF better THEN gross_profit
                                         ELSE tr_best_profit
                    /\ tr_best_legs' = IF better THEN <<tr_q1, tr_q2, quote3>>
                                       ELSE tr_best_legs
                    /\ tr_counter' = IF better THEN tr_counter + 1
                                     ELSE tr_counter
                    /\ tr_pc' = next.pc
                    /\ tr_i' = next.i
                    /\ tr_result' = IF next.pc = "returned" THEN best_opp
                                    ELSE tr_result
    /\ UNCHANGED <<tr_args, tr_q1, tr_q2>>
    /\ UNCHANGED tbVars
    /\ UNCHANGED notTri

\* fault injection for C14: a batch that ends at the first route without
\* an opportunity
TriBatchCollect_stops_on_none ==
    /\ tb_pc = "loop"
    /\ tr_pc \in {"returned", "raised"}
    /\ LET route == tb_args.routes[tb_idx]
           handler_raises == /\ tr_pc = "raised"
                             /\ \E t \in {route[1], route[2], route[3]} :
                                  GetSymbolRaises(t)
           opps == IF tr_pc = "returned" /\ tr_result # NONE
                   THEN Append(tb_opps, tr_result) ELSE tb_opps
           log == IF tr_pc = "raised" /\ ~handler_raises
                  THEN Append(tb_log, [route |-> route, error |-> "ValueError"])
                  ELSE tb_log
           sorted == SortedByBpsDesc(opps)
       IN  /\ tb_outcomes' = Append(tb_outcomes,
                                    [end |-> tr_pc, legs |-> tr_legs,
                                     found |-> tr_result # NONE])
           /\ tb_opps' = opps
           /\ tb_log' = log
           /\ IF handler_raises
              THEN IF tb_args.entry = "full_scan"
                   THEN /\ tb_pc' = "returned"
                        /\ tb_result' =
                             ScanResult(0, <<>>,
                               <<[scan |-> "Triangular scan error",
                                  error |-> "ValueError"]>>)
                        /\ UNCHANGED tb_idx
                   ELSE /\ tb_pc' = "raised"
                        /\ UNCHANGED <<tb_idx, tb_result>>
              ELSE IF tb_idx < Len(tb_args.routes) /\ tr_result # NONE
              THEN /\ tb_idx' = tb_idx + 1
                   /\ UNCHANGED <<tb_pc, tb_result>>
              ELSE /\ tb_pc' = "returned"
                   /\ tb_result' =
                        IF tb_args.entry = "full_scan"
                        THEN ScanResult(Len(TRIANGULAR_ROUTES), sorted, <<>>)
                        ELSE sorted
                   /\ UNCHANGED tb_idx
    /\ tr_pc' = "idle"
    /\ UNCHANGED <<tb_args, tr_args, tr_i, tr_q1, tr_q2, tr_best_profit,
                   tr_best_opp, tr_counter, tr_result, tr_best_legs, tr_req,
                   tr_legs>>
    /\ UNCHANGED notTri

\* the batch takes what the search of the current route gave: a returned
\* opportunity is appended; an exception is handled by a logger.warning
\* whose message calls get_symbol on the three tokens of the route.  After
\* the last route the batch sorts and returns; full_scan wraps the call in
\* a try of its own and builds the ScanResult.
TriBatchCollect ==
    /\ tb_pc = "loop"
    /\ tr_pc \in {"returned", "raised"}
    /\ LET route == tb_args.routes[tb_idx]
           handler_raises == /\ tr_pc = "raised"
                             /\ \E t \in {route[1], route[2], route[3]} :
                                  GetSymbolRaises(t)
           opps == IF tr_pc = "returned" /\ tr_result # NONE
                   THEN Append(tb_opps, tr_result) ELSE tb_opps
           log == IF tr_pc = "raised" /\ ~handler_raises
                  THEN Append(tb_log, [route |-> route, error |-> "ValueError"])
                  ELSE tb_log
           sorted == SortedByBpsDesc(opps)
       IN  /\ tb_outcomes' = Append(tb_outcomes,
                                    [end |-> tr_pc, legs |-> tr_legs,
                                     found |-> tr_result # NONE])
           /\ tb_opps' = opps
           /\ tb_log' = log
           /\ IF handler_raises
              THEN IF tb_args.entry = "full_scan"
                   THEN /\ tb_pc' = "returned"
                        /\ tb_result' =
                             ScanResult(0, <<>>,
                               <<[scan |-> "Triangular scan error",
                                  error |-> "ValueError"]>>)
                        /\ UNCHANGED tb_idx
                   ELSE /\ tb_pc' = "raised"
                        /\ UNCHANGED <<tb_idx, tb_result>>
              ELSE IF tb_idx < Len(tb_args.routes)
              THEN /\ tb_idx' = tb_idx + 1
                   /\ UNCHANGED <<tb_pc, tb_result>>
              ELSE /\ tb_pc' = "returned"
                   /\ tb_result' =
                        IF tb_args.entry = "full_scan"
                        THEN ScanResult(Len(TRIANGULAR_ROUTES), sorted, <<>>)
                        ELSE sorted
                   /\ UNCHANGED tb_idx
    /\ tr_pc' = "idle"
    /\ UNCHANGED <<tb_args, tr_args, tr_i, tr_q1, tr_q2, tr_best_profit,
                   tr_best_opp, tr_counter, tr_result, tr_best_legs, tr_req,
                   tr_legs>>
    /\ UNCHANGED notTri

TriNext ==
    \/ TriBatchCall
    \/ TriSearchCall
    \/ TriLeg1
    \/ TriLeg2
    \/ TriLeg3
    \/ TriBatchCollect

TriSpec == Init /\ [][TriNext]_vars

-----------------------------------------------------------------------------
(* Properties of triangular search and of the batch (TriSpec) *)

UsableQuote(q) == q.is_valid /\ q.amount_out > 0

\* C12: triangular search prunes on a failed leg: a leg-2 or leg-3 quote for
\* a combination starting with v1 is requested only when the leg-1 quote on
\* v1 was valid with positive output, and a leg-3 quote for (v1, v2, *) only
\* when the leg-2 quote on v2 was too.
C12_PruneOnFailedLeg ==
    tr_req # NONE =>
      /\ Len(tr_req.path) >= 2 =>
           /\ tr_q1.dex = tr_req.path[1]
           /\ UsableQuote(tr_q1)
      /\ Len(tr_req.path) = 3 =>
           /\ tr_q2.dex = tr_req.path[2]
           /\ UsableQuote(tr_q2)

\* C12 witness: a search that ended right after a failed leg 2 on the last
\* pair of venues: leg 1 was usable, and no leg 3 was ever asked
C12_Witness ==
    /\ tr_pc = "returned"
    /\ Len(tr_req.path) = 2
    /\ tr_req.path[1] = TriDexList[NumTriDex]
    /\ ~UsableQuote(tr_q2)
    /\ <<3, "asked">> \notin tr_legs

\* the cycle a TriangularArbOpportunity stands for, given its three quotes
ChainedCycle(opp, legs, m) ==
    /\ legs[1].token_in = opp.token_a /\ legs[1].token_out = opp.token_b
    /\ legs[2].token_in = opp.token_b /\ legs[2].token_out = opp.token_c
    /\ legs[3].token_in = opp.token_c /\ legs[3].token_out = opp.token_a
    /\ legs[1].amount_in = opp.amount_in
    /\ legs[1].amount_out = opp.leg1_amount_out
    /\ legs[2].amount_in = opp.leg1_amount_out
    /\ legs[2].amount_out = opp.leg2_amount_out
    /\ legs[3].amount_in = opp.leg2_amount_out
    /\ legs[3].amount_out = opp.leg3_amount_out
    /\ opp.final_amount = opp.leg3_amount_out
    /\ opp.final_amount > opp.amount_in
    /\ opp.gross_profit = opp.final_amount - opp.amount_in
    /\ opp.gross_profit_bps >= m

\* C13: every TriangularArbOpportunity scan_triangular_arbitrage holds or
\* returns is a chained cycle back to token_a: leg 2 was quoted for leg 1's
\* amount_out, leg 3 for leg 2's, final_amount = leg3_amount_out > amount_in
\* and gross_profit_bps >= min_profit_bps.
C13_ChainedProfitableCycle ==
    /\ tr_best_opp # NONE =>
         ChainedCycle(tr_best_opp, tr_best_legs, tr_args.min_profit_bps)
    /\ (tr_pc = "returned" /\ tr_result # NONE) =>
         /\ tr_result = tr_best_opp
         /\ ChainedCycle(tr_result, tr_best_legs, tr_args.min_profit_bps)

\* C13 witness: a returned cycle exactly at the floor, over two venues
C13_Witness ==
    /\ tr_pc = "returned"
    /\ tr_result # NONE
    /\ tr_result.gross_profit_bps = 10
    /\ tr_result.leg1_dex # tr_result.leg3_dex
    /\ tr_result.leg2_amount_out = 500

\* leg 2 was asked of a venue and no venue gave a usable quote for it
Leg2FailedEverywhere(legs) ==
    <<2, "asked">> \in legs /\ <<2, "usable">> \notin legs

\* C14: when the leg-2 quote of a route fails on every venue, the search of
\* that route returns no opportunity and does not raise, and the batch goes
\* on with the routes after it.
C14_Leg2FailureSkipsRoute ==
    /\ (tr_pc \in {"returned", "raised"} /\ Leg2FailedEverywhere(tr_legs)) =>
         tr_pc = "returned" /\ tr_result = NONE
    /\ \A k \in 1..Len(tb_outcomes) :
         Leg2FailedEverywhere(tb_outcomes[k].legs) =>
           /\ tb_outcomes[k].end = "returned"
           /\ ~tb_outcomes[k].found
           /\ (tb_pc \in {"returned", "raised"}
               /\ k < Len(tb_args.routes)) => Len(tb_outcomes) > k
    /\ (tb_pc = "returned"
        /\ \A k \in 1..Len(tb_outcomes) : tb_outcomes[k].end = "returned") =>
         Len(tb_outcomes) = Len(tb_args.routes)

\* C14 witness: full_scan over two routes; leg 2 failed everywhere on the
\* first, and the second was scanned and gave the opportunity returned
C14_Witness ==
    /\ tb_pc = "returned"
    /\ tb_args.entry = "full_scan"
    /\ Len(tb_outcomes) = 2
    /\ Leg2FailedEverywhere(tb_outcomes[1].legs)
    /\ tb_outcomes[2].found
    /\ tb_result.best_triangular # NONE
    /\ tb_result.best_triangular.token_a = TRIANGULAR_ROUTES[2][1]

\* what a batch that ended gave to its caller
BatchEnded == tb_pc \in {"returned", "raised"}
ResultOpportunities ==
    IF tb_args.entry = "full_scan" THEN tb_result.triangular_opportunities
    ELSE tb_result
ResultErrors ==
    IF tb_args.entry = "full_scan" THEN tb_result.errors ELSE <<>>

\* C15: when the search of one route raises, the batch still returns the
\* opportunities of the other routes, sorted by descending
\* gross_profit_bps, and the error of the failing route is among the errors
\* its result carries.
C15_BatchSurfacesErrors ==
    (BatchEnded /\ \E k \in 1..Len(tb_outcomes) :
                      tb_outcomes[k].end = "raised") =>
      /\ tb_pc = "returned"
      /\ ResultOpportunities = SortedByBpsDesc(tb_opps)
      /\ Len(ResultErrors) >= 1

-----------------------------------------------------------------------------
(* bot/arbitrage_scanner.py: FastArbitrageScanner.scan_pair_parallel *)

NumParDex == 2         \* venues of DEXES a parallel scan goes through
MAX_WORKERS == 4                  \* FastArbitrageScanner(max_workers=4)

\* the pairs_with_amounts a caller passes
ParPairLists == {<<<<"WMATIC", "USDC_LEGACY", 3000>>>>,
                 <<<<"WMATIC", "USDC_LEGACY", 3000>>,
                   <<"WMATIC", "USDT", 3000>>>>}
ParMinProfitBps == {10}
\* int(time.time() * 1000) as the workers of one scan read it
ParClockMs == {0, 1}
ParForwardReplies == {[kind |-> "amounts", out |-> a] : a \in ForwardOuts}
                     \cup {[kind |-> "revert", out |-> 0]}
ParReverseReplies == {[kind |-> "amounts", out |-> a] : a \in {3000, 3010}}
                     \cup {[kind |-> "revert", out |-> 0]}

\* list(DEXES.keys()), cut to the venues modelled
ParDexList == [i \in 1..NumParDex |-> DexNames[i]]

\* a submitted _scan_single_pair(token_a, token_b, amount)
ParWorker(entry) ==
    [token_a |-> entry[1], token_b |-> entry[2], amount_in |-> entry[3],
     pc |-> "queued", futures |-> {}, quotes |-> <<>>, forward |-> NONE,
     loaded |-> 0, result |-> NONE]

\* workers a pool thread is running
ParRunning == {i \in DOMAIN pp_workers :
                 pp_workers[i].pc \in {"forward", "reverse", "id_load",
                                       "id_store", "id_read"}}

\* the venues worker w has a quote request in flight to
InFlightVenues(w) ==
    IF w.pc = "forward" THEN w.futures
    ELSE IF w.pc = "reverse" THEN {w.forward.worst_quote.dex}
    ELSE {}

\* a caller invokes scan_pair_parallel: one future per entry
ParScanCall ==
    /\ pp_pc = "idle"
    /\ \E pairs \in ParPairLists, m \in ParMinProfitBps :
         /\ pp_args' = [pairs_with_amounts |-> pairs, min_profit_bps |-> m]
         /\ pp_workers' = [i \in 1..Len(pairs) |-> ParWorker(pairs[i])]
    /\ pp_pc' = "collecting"
    /\ pp_opps' = <<>>
    /\ pp_result' = NONE
    /\ UNCHANGED pp_counter
    /\ UNCHANGED notPar

\* a pool thread takes a queued _scan_single_pair: aggregate_quotes builds
\* its own pool and submits one get_quote per venue
ParWorkerStart(i) ==
    /\ pp_pc = "collecting"
    /\ pp_workers[i].pc = "queued"
    /\ Cardinality(ParRunning) < MAX_WORKERS
    /\ pp_workers' = [pp_workers EXCEPT
                        ![i].pc = "forward",
                        ![i].futures = {ParDexList[k] : k \in 1..NumParDex}]
    /\ UNCHANGED <<pp_pc, pp_args, pp_opps, pp_counter, pp_result>>
    /\ UNCHANGED notPar

\* the forward get_quote of worker i on venue d answers and is collected by
\* the worker's aggregate_quotes; with the last answer aggregate_quotes
\* returns and _scan_single_pair screens the spread, then either returns
\* None or requests the reverse quote on the venue of the worst forward quote
ParForwardAnswer(i, d) ==
    /\ pp_pc = "collecting"
    /\ pp_workers[i].pc = "forward"
    /\ d \in pp_workers[i].futures
    /\ \E reply \in ParForwardReplies :
       LET w == pp_workers[i]
           quote == get_quote(d, w.token_a, w.token_b, w.amount_in, reply)
           quotes == IF quote.is_valid THEN DictPut(w.quotes, d, quote)
                     ELSE w.quotes
           futures == w.futures \ {d}
           forward == AggregatedQuotes(w.token_a, w.token_b, w.amount_in,
                                       quotes)
           no_reverse == \/ forward.best_quote = NONE
                         \/ forward.worst_quote = NONE
                         \/ forward.spread_bps < pp_args.min_profit_bps
       IN  pp_workers' =
             [pp_workers EXCEPT
                ![i].futures = futures,
                ![i].quotes = quotes,
                ![i].forward = IF futures = {} THEN forward ELSE NONE,
                ![i].pc = IF futures # {} THEN "forward"
                          ELSE IF no_reverse THEN "done" ELSE "reverse"]
    /\ UNCHANGED <<pp_pc, pp_args, pp_opps, pp_counter, pp_result>>
    /\ UNCHANGED notPar

\* the reverse get_quote of worker i answers; the filters; the future is
\* done, or the opportunity is about to be built, its id first
ParReverseAnswer(i) ==
    /\ pp_pc = "collecting"
    /\ pp_workers[i].pc = "reverse"
    /\ \E reply \in ParReverseReplies :
       LET w == pp_workers[i]
           best_buy == w.forward.best_quote
           sell_quote == get_quote(w.forward.worst_quote.dex, w.token_b,
                                   w.token_a, best_buy.amount_out, reply)
           gross_profit == sell_quote.amount_out - w.amount_in
           gross_profit_bps == Trunc(gross_profit * 10000, w.amount_in)
           found == /\ sell_quote.is_valid
                    /\ gross_profit > 0
                    /\ gross_profit_bps >= pp_args.min_profit_bps
       IN  pp_workers' =
             [pp_workers EXCEPT
                ![i].pc = IF found THEN "id_load" ELSE "done",
                ![i].result =
                   IF found
                   THEN DirectArbOpportunity(
                          NONE, w.token_a, w.token_b, w.amount_in, best_buy,
                          sell_quote, gross_profit, gross_profit_bps)
                   ELSE NONE]
    /\ UNCHANGED <<pp_pc, pp_args, pp_opps, pp_counter, pp_result>>
    /\ UNCHANGED notPar

\* f"FAST-{int(time.time() * 1000)}-{self._opportunity_counter}"
FastOpportunityId(ms, n) == [prefix |-> "FAST", ms |-> ms, counter |-> n]

\* _generate_opportunity_id in the thread of worker i, self._opportunity_counter
\* += 1 being a read of the attribute, an addition and a write, with no lock:
\* the read
ParIdLoad(i) ==
    /\ pp_pc = "collecting"
    /\ pp_workers[i].pc = "id_load"
    /\ pp_workers' = [pp_workers EXCEPT ![i].pc = "id_store",
                                        ![i].loaded = pp_counter]
    /\ UNCHANGED <<pp_pc, pp_args, pp_opps, pp_counter, pp_result>>
    /\ UNCHANGED notPar

\* the write of the incremented value
ParIdStore(i) ==
    /\ pp_pc = "collecting"
    /\ pp_workers[i].pc = "id_store"
    /\ pp_counter' = pp_workers[i].loaded + 1
    /\ pp_workers' = [pp_workers EXCEPT ![i].pc = "id_read"]
    /\ UNCHANGED <<pp_pc, pp_args, pp_opps, pp_result>>
    /\ UNCHANGED notPar

\* the f-string reads the clock, in milliseconds, and the attribute; the
\* opportunity is returned and the future is done
ParIdRead(i) ==
    /\ pp_pc = "collecting"
    /\ pp_workers[i].pc = "id_read"
    /\ \E ms \in ParClockMs :
         pp_workers' =
           [pp_workers EXCEPT
              ![i].pc = "done",
              ![i].result = [@ EXCEPT !.opportunity_id =
                                        FastOpportunityId(ms, pp_counter)]]
    /\ UNCHANGED <<pp_pc, pp_args, pp_opps, pp_counter, pp_result>>
    /\ UNCHANGED notPar

\* as_completed yields the finished future of worker i; after the last one
\* the pool is left and the sorted list returned
ParCollect(i) ==
    /\ pp_pc = "collecting"
    /\ pp_workers[i].pc = "done"
    /\ LET opps == IF pp_workers[i].result # NONE
                   THEN Append(pp_opps, pp_workers[i].result) ELSE pp_opps
           last == \A j \in DOMAIN pp_workers \ {i} :
                     pp_workers[j].pc = "collected"
       IN  /\ pp_opps' = opps
           /\ pp_pc' = IF last THEN "returned" ELSE pp_pc
           /\ pp_result' = IF last THEN SortedByBpsDesc(opps) ELSE pp_result
    /\ pp_workers' = [pp_workers EXCEPT ![i].pc = "collected"]
    /\ UNCHANGED <<pp_args, pp_counter>>
    /\ UNCHANGED notPar

ParNext ==
    \/ ParScanCall
    \/ \E i \in DOMAIN pp_workers : ParWorkerStart(i)
    \/ \E i \in DOMAIN pp_workers : \E d \in DOMAIN DEXES : ParForwardAnswer(i, d)
    \/ \E i \in DOMAIN pp_workers : ParReverseAnswer(i)
    \/ \E i \in DOMAIN pp_workers : ParIdLoad(i)
    \/ \E i \in DOMAIN pp_workers : ParIdStore(i)
    \/ \E i \in DOMAIN pp_workers : ParIdRead(i)
    \/ \E i \in DOMAIN pp_workers : ParCollect(i)

ParSpec == Init /\ [][ParNext]_vars

-----------------------------------------------------------------------------
(* Properties of the parallel scan (ParSpec) *)

\* the number of quote requests in flight to venue d
RequestsInFlight(d) ==
    Cardinality({i \in DOMAIN pp_workers : d \in InFlightVenues(pp_workers[i])})

\* C18: at no point during scan_pair_parallel are two quote requests to the
\* same venue in flight at the same time.
C18_OneRequestPerVenue ==
    \A d \in DOMAIN DEXES : RequestsInFlight(d) <= 1

\* the opportunities the workers of the scan have returned so far
ParReturned == {i \in DOMAIN pp_workers :
                  /\ pp_workers[i].pc \in {"done", "collected"}
                  /\ pp_workers[i].result # NONE}

\* C28: all opportunity IDs generated by one scanner instance are pairwise
\* distinct, including those generated when scan_pair_parallel runs
\* _scan_single_pair in several worker threads sharing the counter.
C28_UniqueOpportunityIds ==
    \A i, j \in ParReturned :
      i # j => pp_workers[i].result.opportunity_id
                 # pp_workers[j].result.opportunity_id

-----------------------------------------------------------------------------
(* bot/profit_calculator.py: ProfitCalculator applied to an opportunity.   *)
(* A caller holds one opportunity, its flags and what the price feeds      *)
(* answer, and calls the calculation with one gas price after another.     *)

MaxRuns == 2           \* calculations kept for one opportunity

\* (amount_in, amount returned) of the opportunities: 4 and 100 tokens
ProfitTrades == {<<40000, 40400>>, <<40000, 41000>>,
                 <<1000000, 1004100>>, <<1000000, 1006100>>}
\* token_a: one with a price feed, one unknown to get_token_price_usd
ProfitTokens == {"USDC_LEGACY", "QUICK"}
ProfitFeedPrices == {100}         \* the feed's answer for token_a, cents
ProfitMaticPrices == {50, 80}     \* get_matic_price_usd, cents
ProfitGasPrices == {30, 100, 500} \* gas_price_gwei

ProfitDirectOpportunity(token_a, trade) ==
    LET buy_quote == get_quote("quickswap", token_a, "WMATIC", trade[1],
                               [kind |-> "amounts", out |-> 80000])
        sell_quote == get_quote("sushiswap", "WMATIC", token_a, 80000,
                                [kind |-> "amounts", out |-> trade[2]])
    IN  DirectArbOpportunity(OpportunityId("ARB", 1), token_a, "WMATIC",
                             trade[1], buy_quote, sell_quote,
                             trade[2] - trade[1],
                             Trunc((trade[2] - trade[1]) * 10000, trade[1]))

ProfitTriangularOpportunity(token_a, trade) ==
    LET quote1 == get_quote("quickswap", token_a, "WMATIC", trade[1],
                            [kind |-> "amounts", out |-> 80000])
        quote2 == get_quote("sushiswap", "WMATIC", "WETH", 80000,
                            [kind |-> "amounts", out |-> 20])
        quote3 == get_quote("quickswap", "WETH", token_a, 20,
                            [kind |-> "amounts", out |-> trade[2]])
    IN  TriangularArbOpportunity(OpportunityId("TRI", 1), token_a, "WMATIC",
                                 "WETH", trade[1], quote1, quote2, quote3,
                                 trade[2] - trade[1],
                                 Trunc((trade[2] - trade[1]) * 10000,
                                       trade[1]))

\* a caller takes up an opportunity; the feeds' answers stay as they are
\* for the calculations that follow
ProfitOpen ==
    /\ pm_in = NONE
    /\ \E kind \in {"direct", "triangular"}, token_a \in ProfitTokens,
          trade \in ProfitTrades, use_flash_loan \in BOOLEAN,
          feed_price \in ProfitFeedPrices, matic_price \in ProfitMaticPrices :
         pm_in' = [kind |-> kind,
                   opportunity |->
                     IF kind = "direct"
                     THEN ProfitDirectOpportunity(token_a, trade)
                     ELSE ProfitTriangularOpportunity(token_a, trade),
                   use_flash_loan |-> use_flash_loan,
                   feed_price |-> feed_price,
                   matic_price |-> matic_price]
    /\ UNCHANGED pm_runs
    /\ UNCHANGED notProfit

\* calculate_direct_arb_profit(opportunity, use_flash_loan,
\* gas_price_gwei=gwei), the other parameters at their defaults
ProfitCalcDirect ==
    /\ pm_in # NONE
    /\ pm_in.kind = "direct"
    /\ Len(pm_runs) < MaxRuns
    /\ \E gwei \in ProfitGasPrices :
         pm_runs' = Append(pm_runs,
           [gas_price_gwei |-> gwei,
            breakdown |-> calculate_direct_arb_profit(
               pm_in.opportunity, pm_in.use_flash_loan,
               AAVE_FLASH_LOAN_FEE_BPS, DEFAULT_SLIPPAGE_DIRECT, gwei,
               get_token_price_usd(pm_in.opportunity.token_a,
                                   pm_in.feed_price),
               pm_in.matic_price)])
    /\ UNCHANGED pm_in
    /\ UNCHANGED notProfit

\* calculate_triangular_arb_profit(opportunity, use_flash_loan,
\* gas_price_gwei=gwei), the other parameters at their defaults
ProfitCalcTriangular ==
    /\ pm_in # NONE
    /\ pm_in.kind = "triangular"
    /\ Len(pm_runs) < MaxRuns
    /\ \E gwei \in ProfitGasPrices :
         pm_runs' = Append(pm_runs,
           [gas_price_gwei |-> gwei,
            breakdown |-> calculate_triangular_arb_profit(
               pm_in.opportunity, pm_in.use_flash_loan,
               AAVE_FLASH_LOAN_FEE_BPS, DEFAULT_SLIPPAGE_TRIANGULAR, gwei,
               get_token_price_usd(pm_in.opportunity.token_a,
                                   pm_in.feed_price),
               pm_in.matic_price)])
    /\ UNCHANGED pm_in
    /\ UNCHANGED notProfit

ProfitNext ==
    \/ ProfitOpen
    \/ ProfitCalcDirect
    \/ ProfitCalcTriangular

ProfitSpec == Init /\ [][ProfitNext]_vars

-----------------------------------------------------------------------------
(* Properties of the Profit Model (ProfitSpec) *)

\* the decision a breakdown must carry, recomputed from its net figures
DecisionMatches(bd) ==
    LET usd_ok == bd.net_profit_usd >= MIN_PROFIT_USD
        bps_ok == bd.net_profit_bps >= MIN_PROFIT_BPS
    IN  /\ bd.is_profitable <=> (usd_ok /\ bps_ok)
        /\ bd.is_profitable => bd.reason = ""
        /\ ~bd.is_profitable =>
             /\ bd.reason # ""
             /\ ~usd_ok => bd.reason = "Net profit USD < min"
             /\ usd_ok => bd.reason = "Net profit bps < min"

\* C19: in every breakdown, direct or triangular, is_profitable is exactly
\* net_profit_usd >= MIN_PROFIT_USD and net_profit_bps >= MIN_PROFIT_BPS;
\* when false the reason is non-empty and names the USD threshold if that
\* one failed, else the bps threshold; when true the reason is empty.
C19_ProfitabilityPredicate ==
    \A i \in DOMAIN pm_runs : DecisionMatches(pm_runs[i].breakdown)

\* one opportunity judged profitable at one gas price and turned down on
\* the bps threshold alone at another
C19_Witness ==
    \E i, j \in DOMAIN pm_runs :
      /\ pm_runs[i].breakdown.is_profitable
      /\ ~pm_runs[j].breakdown.is_profitable
      /\ pm_runs[j].breakdown.net_profit_usd >= MIN_PROFIT_USD
      /\ pm_runs[j].breakdown.reason = "Net profit bps < min"

\* a < b on exact fractions with positive denominators
FracLess(a, b) == a.n * b.d < b.n * a.d

\* the USD price the calculations used for token_a
TokenAPrice ==
    get_token_price_usd(pm_in.opportunity.token_a, pm_in.feed_price)

\* two calculations on the same inputs, the second named at the higher
\* gas price
GasPricePairs ==
    {p \in (DOMAIN pm_runs) \X (DOMAIN pm_runs) :
       pm_runs[p[1]].gas_price_gwei < pm_runs[p[2]].gas_price_gwei}

\* C20 as stated: for any opportunity and any two gas prices g1 < g2 with
\* every other input held fixed, the net profit computed with g2 is
\* strictly smaller than the net profit computed with g1.
C20_StrictlyDecreasingInGasPrice ==
    \A p \in GasPricePairs :
      FracLess(pm_runs[p[2]].breakdown.net_profit,
               pm_runs[p[1]].breakdown.net_profit)

\* C20 amended: with every other input held fixed and g1 < g2, the net
\* profit computed with g2 is strictly smaller when token_a has a positive
\* USD price; when get_token_price_usd answers 0 for token_a (no price feed)
\* the gas cost is left out and the net profit is the same at both prices.
C20_GasPriceMonotonicity ==
    \A p \in GasPricePairs :
      LET lo == pm_runs[p[1]].breakdown.net_profit
          hi == pm_runs[p[2]].breakdown.net_profit
      IN  IF TokenAPrice > 0 THEN FracLess(hi, lo) ELSE hi = lo

\* a priced token_a calculated at two gas prices, the dearer one leaving
\* less net profit
C20_Witness ==
    \E p \in GasPricePairs :
      /\ TokenAPrice > 0
      /\ pm_in.kind = "direct"
      /\ FracLess(pm_runs[p[2]].breakdown.net_profit,
                  pm_runs[p[1]].breakdown.net_profit)

-----------------------------------------------------------------------------
(* bot/profit_calculator.py: one ProfitCalculator over time.  Each         *)
(* calculation looks token_a's price up, settles the gas price and looks   *)
(* the MATIC price up, through the price cache; the oracle answers or      *)
(* raises, the network gas price is read or the read raises.               *)

MaxOracleClock == 15   \* the clock stops here, seconds

OracleSteps == {5, 10}            \* seconds between two calculations
OraclePrices == {80, 100}         \* a feed's answer, cents
OracleReplies == {[kind |-> "answer", price |-> p] : p \in OraclePrices}
                 \cup {[kind |-> "error", price |-> 0]}
\* gas_price_gwei as passed, or None and what w3.eth.gas_price does
OracleGasInputs == {[kind |-> "passed", gwei |-> 100],
                    [kind |-> "network", gwei |-> 30],
                    [kind |-> "network", gwei |-> 600],
                    [kind |-> "network_error", gwei |-> 0]}
OracleTokens == {"USDC_LEGACY", "WMATIC"}

\* estimate_gas_cost: the gas price the cost is computed with
GasPriceInUse(gas) ==
    IF gas.kind = "network_error" THEN GAS_PRICE_FALLBACK_GWEI ELSE gas.gwei

\* what a lookup leaves in the record of the calculation
LookupNote(symbol, l) ==
    [symbol |-> symbol, source |-> l.source, price |-> l.price,
     entry |-> l.entry]

\* the whole of calculate_direct_arb_profit / calculate_triangular_arb_profit
\* at time t: get_token_price_usd(token_a), then estimate_gas_cost with its
\* get_matic_price_usd, then the arithmetic
CalculationAt(fn, opportunity, cache, t, reply_a, reply_matic, gas) ==
    LET symbol_a == PRICE_MAP[opportunity.token_a]
        lookup_a == get_chainlink_price(cache, symbol_a, t, reply_a)
        gwei == GasPriceInUse(gas)
        lookup_m == get_chainlink_price(lookup_a.cache, "MATIC", t,
                                        reply_matic)
    IN  [fn |-> fn, called_at |-> t,
         lookups |-> <<LookupNote(symbol_a, lookup_a),
                       LookupNote("MATIC", lookup_m)>>,
         cache |-> lookup_m.cache,
         breakdown |->
           IF fn = "direct"
           THEN calculate_direct_arb_profit(opportunity, FALSE,
                  AAVE_FLASH_LOAN_FEE_BPS, DEFAULT_SLIPPAGE_DIRECT, gwei,
                  lookup_a.price, lookup_m.price)
           ELSE calculate_triangular_arb_profit(opportunity, FALSE,
                  AAVE_FLASH_LOAN_FEE_BPS, DEFAULT_SLIPPAGE_TRIANGULAR, gwei,
                  lookup_a.price, lookup_m.price)]

\* the symbols whose last lookup of a calculation fell back to the default
FailedIn(call) ==
    IF call = NONE THEN {}
    ELSE {call.lookups[i].symbol : i \in
            {j \in 1..2 : /\ call.lookups[j].source = "default"
                          /\ \A k \in (j + 1)..2 :
                               call.lookups[k].symbol
                                 # call.lookups[j].symbol}}

\* evaluate_opportunity on a direct opportunity
OracleCalcDirect ==
    /\ \E token_a \in OracleTokens, reply_a \in OracleReplies,
          reply_matic \in OracleReplies, gas \in OracleGasInputs :
         LET call == CalculationAt("direct",
                       ProfitDirectOpportunity(token_a, <<40000, 41000>>),
                       or_cache, or_clock, reply_a, reply_matic, gas)
         IN  /\ or_cache' = call.cache
             /\ or_last' = [f \in DOMAIN call \ {"cache"} |-> call[f]]
    /\ or_prev_failed' = FailedIn(or_last)
    /\ UNCHANGED or_clock
    /\ UNCHANGED notOracle

\* evaluate_opportunity on a triangular opportunity
OracleCalcTriangular ==
    /\ \E reply_a \in OracleReplies, reply_matic \in OracleReplies,
          gas \in OracleGasInputs :
         LET call == CalculationAt("triangular",
                       ProfitTriangularOpportunity("USDC_LEGACY",
                                                   <<1000000, 1006100>>),
                       or_cache, or_clock, reply_a, reply_matic, gas)
         IN  /\ or_cache' = call.cache
             /\ or_last' = [f \in DOMAIN call \ {"cache"} |-> call[f]]
    /\ or_prev_failed' = FailedIn(or_last)
    /\ UNCHANGED or_clock
    /\ UNCHANGED notOracle

\* time passes between two calculations
OracleTick ==
    /\ \E d \in OracleSteps :
         /\ or_clock + d <= MaxOracleClock
         /\ or_clock' = or_clock + d
    /\ UNCHANGED <<or_cache, or_last, or_prev_failed>>
    /\ UNCHANGED notOracle

OracleNext ==
    \/ OracleCalcDirect
    \/ OracleCalcTriangular
    \/ OracleTick

OracleSpec == Init /\ [][OracleNext]_vars

-----------------------------------------------------------------------------
(* Properties of the price cache and the gas price (OracleSpec) *)

\* the first lookup of its symbol within the calculation
FirstLookup(call, i) ==
    \A j \in 1..(i - 1) : call.lookups[j].symbol # call.lookups[i].symbol

\* a failed oracle read yields the default and a breakdown all the same, and
\* a symbol that failed in the calculation before is asked of the oracle
\* again rather than served from the cache
FallbackAnswers ==
    or_last # NONE =>
      /\ or_last.breakdown.is_profitable \in BOOLEAN
      /\ \A i \in 1..2 :
           LET l == or_last.lookups[i]
           IN  /\ l.source = "default" => l.price = DefaultPrice(l.symbol)
               /\ (l.symbol \in or_prev_failed /\ FirstLookup(or_last, i))
                    => l.source # "cache"

\* a calculation whose read of a symbol failed leaves that symbol's cache
\* entry as it was
FailedReadKeepsCache ==
    \A symbol \in FailedIn(or_last') : or_cache'[symbol] = or_cache[symbol]

\* C21: when the oracle read fails, _get_chainlink_price returns the default
\* price without raising and leaves the price cache unchanged, so both
\* calculations still return a breakdown and the next call queries the
\* oracle again.
C21_OracleFallback == []FallbackAnswers /\ [][FailedReadKeepsCache]_vars

\* two calculations in a row whose oracle read of the same symbol failed
C21_Witness ==
    /\ or_last # NONE
    /\ \E i \in 1..2 :
         /\ or_last.lookups[i].source = "default"
         /\ or_last.lookups[i].symbol \in or_prev_failed
         /\ or_cache[or_last.lookups[i].symbol] = NONE

\* a price served from the cache is an oracle answer stored less than the
\* TTL before the call
ServedFresh ==
    or_last # NONE =>
      \A i \in 1..2 :
        LET l == or_last.lookups[i]
        IN  l.source = "cache" =>
              /\ l.entry # NONE
              /\ l.entry.price = l.price
              /\ l.entry.price \in OraclePrices
              /\ l.entry.time <= or_last.called_at
              /\ or_last.called_at - l.entry.time < PRICE_CACHE_TTL

\* a calculation (the clock stands still during it) serves its first lookup
\* from the cache exactly when the entry found is younger than the TTL;
\* otherwise the oracle is queried
StaleIsRequeried ==
    (or_clock' = or_clock) =>
      LET l == or_last'.lookups[1]
          found == or_cache[l.symbol]
          young == found # NONE /\ or_clock - found.time < PRICE_CACHE_TTL
      IN  /\ l.source = "cache" <=> young
          /\ ~young => l.source \in {"oracle", "default"}

\* C22: over any sequence of price lookups, _get_chainlink_price returns a
\* cached value only if it was stored by a successful oracle read less than
\* the TTL (10 s) before the current call; otherwise the oracle is queried
\* again.
C22_CacheWithinTtl == []ServedFresh /\ [][StaleIsRequeried]_vars

\* a price served from the cache some seconds after it was stored, next to
\* an entry of another symbol that had outlived the TTL and was read anew
C22_Witness ==
    /\ or_last # NONE
    /\ \E i, j \in 1..2 :
         /\ or_last.lookups[i].source = "cache"
         /\ or_last.called_at - or_last.lookups[i].entry.time > 0
         /\ or_last.lookups[j].source = "oracle"
         /\ or_last.called_at >= PRICE_CACHE_TTL

\* C24: the gas price the Profit Model computes the gas cost with, read
\* from the network or passed in, never exceeds MAX_GAS_PRICE_GWEI.
C24_GasPriceCeiling ==
    or_last # NONE =>
      or_last.breakdown.gas_cost.gas_price_gwei <= MAX_GAS_PRICE_GWEI

-----------------------------------------------------------------------------
(* bot/profit_calculator.py: _get_chainlink_price("MATIC") called from     *)
(* several threads on one ProfitCalculator.  There is no lock; a step is   *)
(* one dict operation or the oracle call.  The cache entry carries, next   *)
(* to the (price, time) tuple, which thread wrote each half.               *)

MaxThreadClock == 10   \* the clock stops here, seconds

ThreadSteps == {5, 10}            \* seconds the clock moves at a time
ThreadOraclePrices == {80, 100}   \* the feed's answer, cents

\* the tuple (price, now) built and stored by thread t
CacheEntry(t, price, time) ==
    [price |-> price, time |-> time, price_by |-> t, time_by |-> t]

\* cache_key = ...; now = time.time()
PriceCall(t) ==
    /\ pt_threads[t].pc \in {"idle", "returned"}
    /\ pt_threads' = [pt_threads EXCEPT ![t] =
                        [pc |-> "check", now |-> pt_clock, seen |-> NONE,
                         price |-> 0, result |-> NONE]]
    /\ UNCHANGED <<pt_cache, pt_clock>>
    /\ UNCHANGED notThread

\* if cache_key in self._price_cache
PriceCheck(t) ==
    /\ pt_threads[t].pc = "check"
    /\ pt_threads' = [pt_threads EXCEPT ![t].pc =
                        IF pt_cache # NONE THEN "read" ELSE "oracle"]
    /\ UNCHANGED <<pt_cache, pt_clock>>
    /\ UNCHANGED notThread

\* cached_price, cached_time = self._price_cache[cache_key]; return the
\* cached price when it is younger than the TTL
PriceRead(t) ==
    /\ pt_threads[t].pc = "read"
    /\ pt_threads' = [pt_threads EXCEPT ![t] =
         IF CacheFresh(pt_cache, pt_threads[t].now)
         THEN [@ EXCEPT !.pc = "returned", !.seen = pt_cache,
                        !.result = [price |-> pt_cache.price,
                                    source |-> "cache"]]
         ELSE [@ EXCEPT !.pc = "oracle", !.seen = pt_cache]]
    /\ UNCHANGED <<pt_cache, pt_clock>>
    /\ UNCHANGED notThread

\* the try block up to the price: the feed answers, or the call raises and
\* the default is returned
PriceOracle(t) ==
    /\ pt_threads[t].pc = "oracle"
    /\ \/ \E p \in ThreadOraclePrices :
            pt_threads' = [pt_threads EXCEPT ![t].pc = "store",
                                             ![t].price = p]
       \/ pt_threads' = [pt_threads EXCEPT ![t].pc = "returned",
                           ![t].result = [price |-> DefaultPrice("MATIC"),
                                          source |-> "default"]]
    /\ UNCHANGED <<pt_cache, pt_clock>>
    /\ UNCHANGED notThread

\* fault injection for C23: the price is stored, the timestamp is whatever
\* the entry held
PriceStore_price_only(t) ==
    /\ pt_threads[t].pc = "store"
    /\ pt_cache' = IF pt_cache = NONE
                   THEN CacheEntry(t, pt_threads[t].price, pt_threads[t].now)
                   ELSE [pt_cache EXCEPT !.price = pt_threads[t].price,
                                         !.price_by = t]
    /\ pt_threads' = [pt_threads EXCEPT ![t].pc = "returned",
                        ![t].result = [price |-> pt_threads[t].price,
                                       source |-> "oracle"]]
    /\ UNCHANGED pt_clock
    /\ UNCHANGED notThread

\* self._price_cache[cache_key] = (price, now); return price
PriceStore(t) ==
    /\ pt_threads[t].pc = "store"
    /\ pt_cache' = CacheEntry(t, pt_threads[t].price, pt_threads[t].now)
    /\ pt_threads' = [pt_threads EXCEPT ![t].pc = "returned",
                        ![t].result = [price |-> pt_threads[t].price,
                                       source |-> "oracle"]]
    /\ UNCHANGED pt_clock
    /\ UNCHANGED notThread

\* time passes
ThreadTick ==
    /\ \E d \in ThreadSteps :
         /\ pt_clock + d <= MaxThreadClock
         /\ pt_clock' = pt_clock + d
    /\ UNCHANGED <<pt_cache, pt_threads>>
    /\ UNCHANGED notThread

ThreadNext ==
    \/ \E t \in PriceThreads : PriceCall(t)
    \/ \E t \in PriceThreads : PriceCheck(t)
    \/ \E t \in PriceThreads : PriceRead(t)
    \/ \E t \in PriceThreads : PriceOracle(t)
    \/ \E t \in PriceThreads : PriceStore(t)
    \/ ThreadTick

ThreadSpec == Init /\ [][ThreadNext]_vars

-----------------------------------------------------------------------------
(* Properties of the shared price cache (ThreadSpec) *)

\* both halves of an entry come from one write
WrittenTogether(entry) == entry.price_by = entry.time_by

\* C23: when several threads look the same symbol up concurrently, every
\* reader observes a (price, timestamp) pair written together by a single
\* writer, never a price from one write with the timestamp of another.
C23_PairsWrittenTogether ==
    /\ pt_cache # NONE => WrittenTogether(pt_cache)
    /\ \A t \in PriceThreads :
         pt_threads[t].seen # NONE => WrittenTogether(pt_threads[t].seen)

\* a thread has read the pair another thread wrote and found it too old,
\* while that other thread is about to store again
C23_Witness ==
    \E t, u \in PriceThreads :
      /\ t # u
      /\ pt_threads[t].seen # NONE
      /\ pt_threads[t].seen.price_by = u
      /\ pt_threads[t].pc = "oracle"
      /\ pt_threads[u].pc = "store"

-----------------------------------------------------------------------------
(* bot/main.py: ArbitrageBot; bot/executor.py: SafeExecutor, ExecutionEngine *)
(* Amounts as in the Profit Model: 1e-4 token.                             *)

MAX_CONSECUTIVE_FAILURES == 5
SAFE_MIN_NET_BPS == 20            \* execute_safe_trade's extra floor

OPPORTUNITY_TTL == 3              \* opportunity_ttl_seconds, and 3.0 in the fast scanner
MaxClock == 5          \* the clock stops here

BotModes == {"scan_only", "simulate", "execute"}
BotTradeSize == 40000             \* trade_size_usd = 4.00
BotSellOuts == {40020, 40400, 41000}
BotGasPrices == {30, 500}
Balances == {0, 30000, 45000}

\* what full_scan can hand over as best_direct: buy on one venue, sell on
\* another, above the scanner's floor of 5 bps
BotOpportunities ==
    {LET buy_quote == get_quote("quickswap", "USDC_LEGACY", "WMATIC",
                                BotTradeSize,
                                [kind |-> "amounts", out |-> 80000])
         sell_quote == get_quote("sushiswap", "WMATIC", "USDC_LEGACY", 80000,
                                 [kind |-> "amounts", out |-> so])
     IN  DirectArbOpportunity(OpportunityId("ARB", 1), "USDC_LEGACY",
                              "WMATIC", BotTradeSize, buy_quote, sell_quote,
                              so - BotTradeSize,
                              Trunc((so - BotTradeSize) * 10000,
                                    BotTradeSize)) :
     so \in BotSellOuts}

\* the opportunity with detected_at=time.time() and
\* expires_at=time.time() + self.opportunity_ttl, both read at t
Stamped(opp, t) ==
    [f \in DOMAIN opp \cup {"detected_at", "expires_at"} |->
       IF f = "detected_at" THEN t
       ELSE IF f = "expires_at" THEN t + OPPORTUNITY_TTL
       ELSE opp[f]]

\* fault injection for C17: expired from the instant expires_at on
is_expired_from_expires_at(opp, t) == t >= opp.expires_at

\* DirectArbOpportunity.is_expired at clock reading t
is_expired(opp, t) == t > opp.expires_at

ExecutionResult(status, opportunity_id, error) ==
    [status |-> status, opportunity_id |-> opportunity_id, error |-> error]

\* the bot is constructed with a mode; the deployment settings are read
\* from config.py
BotConfigured ==
    /\ bot_mode \in BotModes
    /\ dry_run_mode \in BOOLEAN
    /\ simulation_mode \in BOOLEAN
    /\ bot_pc = "scan"
    /\ bot_opp = NONE
    /\ bot_breakdown = NONE
    /\ ex_result = NONE
    /\ txs = <<>>
    /\ consecutive_failures = 0
    /\ now = 0
    /\ ex_handed = NONE
    /\ ex_simulated = {}

\* run_single_scan: scan_opportunities returns the best direct opportunity
\* or none
BotRunSingleScan ==
    /\ bot_pc = "scan"
    /\ \E opp \in BotOpportunities \cup {NONE} :
         /\ bot_opp' = IF opp = NONE THEN NONE ELSE Stamped(opp, now)
         /\ bot_pc' = IF opp = NONE THEN "end_scan" ELSE "evaluate"
    /\ bot_breakdown' = NONE
    /\ ex_result' = NONE
    /\ txs' = <<>>
    /\ UNCHANGED <<bot_mode, dry_run_mode, simulation_mode,
                   consecutive_failures>>
    /\ ex_handed' = NONE
    /\ ex_simulated' = {}
    /\ UNCHANGED now
    /\ UNCHANGED notBot

\* evaluate_opportunity (the Profit Model with own capital) and the mode
\* test of run_single_scan; an exception makes the evaluation None
BotEvaluateOpportunity ==
    /\ bot_pc = "evaluate"
    /\ \E gwei \in BotGasPrices, raised \in BOOLEAN :
       LET breakdown == calculate_direct_arb_profit(
                          bot_opp, FALSE, AAVE_FLASH_LOAN_FEE_BPS,
                          DEFAULT_SLIPPAGE_DIRECT, gwei, 100,
                          MATIC_PRICE_CENTS)
       IN  /\ bot_breakdown' = IF raised THEN NONE ELSE breakdown
           /\ bot_pc' = IF ~raised /\ breakdown.is_profitable
                           /\ bot_mode = "execute"
                        THEN "execute_opportunity" ELSE "end_scan"
    /\ UNCHANGED <<bot_mode, dry_run_mode, simulation_mode, bot_opp,
                   ex_result, txs, consecutive_failures>>
    /\ UNCHANGED <<ex_handed, ex_simulated>>
    /\ UNCHANGED now
    /\ UNCHANGED notBot

MAX_CAPITAL_PCT == 80              \* max_capital_pct of execute_safe_trade

\* max_trade = balance * max_capital_pct / Decimal(100), exact on the
\* balances used
MaxTrade(balance) == (balance * MAX_CAPITAL_PCT) \div 100

\* execute_opportunity and SafeExecutor.execute_safe_trade up to the call
\* of the engine
BotExecuteOpportunity ==
    /\ bot_pc = "execute_opportunity"
    /\ \E balance \in Balances :
         IF bot_mode \in {"scan_only", "simulate"}
         THEN bot_pc' = "record_trade" /\ UNCHANGED <<ex_result, ex_handed>>
         ELSE IF balance <= 0
         THEN /\ ex_result' = ExecutionResult("skipped",
                                 bot_opp.opportunity_id,
                                 "No balance available")
              /\ bot_pc' = "record_trade"
              /\ UNCHANGED ex_handed
         ELSE IF bot_breakdown.net_profit_bps < SAFE_MIN_NET_BPS
         THEN /\ ex_result' = ExecutionResult("skipped",
                                 bot_opp.opportunity_id,
                                 "Profit too low for safe execution")
              /\ bot_pc' = "record_trade"
              /\ UNCHANGED ex_handed
         ELSE /\ bot_pc' = "execute_direct"
              /\ ex_handed' = [amount_in |-> bot_opp.amount_in,
                               balance |-> balance,
                               max_trade |-> MaxTrade(balance)]
              /\ UNCHANGED ex_result
    /\ UNCHANGED <<bot_mode, dry_run_mode, simulation_mode, bot_opp,
                   bot_breakdown, txs, consecutive_failures>>
    /\ UNCHANGED ex_simulated
    /\ UNCHANGED now
    /\ UNCHANGED notBot

\* fault injection for C25: the engine does not look at DRY_RUN_MODE
ExecuteDirectArbitrage_ignores_dry_run ==
    /\ bot_pc = "execute_direct"
    /\ \E balance \in Balances :
       LET skip(error) ==
             /\ ex_result' = ExecutionResult("skipped",
                                bot_opp.opportunity_id, error)
             /\ bot_pc' = "record_trade"
       IN  IF ~bot_breakdown.is_profitable THEN skip("Not profitable")
           ELSE IF is_expired(bot_opp, now)
           THEN skip("Opportunity expired")
           ELSE IF balance < bot_opp.amount_in
           THEN /\ ex_result' = ExecutionResult("failed",
                                   bot_opp.opportunity_id,
                                   "Insufficient balance")
                /\ bot_pc' = "record_trade"
           ELSE bot_pc' = "approve_a" /\ UNCHANGED ex_result
    /\ UNCHANGED <<bot_mode, dry_run_mode, simulation_mode, bot_opp,
                   bot_breakdown, txs, consecutive_failures>>
    /\ UNCHANGED <<ex_handed, ex_simulated>>
    /\ UNCHANGED now
    /\ UNCHANGED notBot

\* execute_direct_arbitrage up to the approvals: dry run, profitability,
\* expiry, balance
ExecuteDirectArbitrage ==
    /\ bot_pc = "execute_direct"
    /\ \E balance \in Balances :
       LET skip(error) ==
             /\ ex_result' = ExecutionResult("skipped",
                                bot_opp.opportunity_id, error)
             /\ bot_pc' = "record_trade"
       IN  IF dry_run_mode THEN skip("Dry run mode enabled")
           ELSE IF ~bot_breakdown.is_profitable THEN skip("Not profitable")
           ELSE IF is_expired(bot_opp, now)
           THEN skip("Opportunity expired")
           ELSE IF balance < bot_opp.amount_in
           THEN /\ ex_result' = ExecutionResult("failed",
                                   bot_opp.opportunity_id,
                                   "Insufficient balance")
                /\ bot_pc' = "record_trade"
           ELSE bot_pc' = "approve_a" /\ UNCHANGED ex_result
    /\ UNCHANGED <<bot_mode, dry_run_mode, simulation_mode, bot_opp,
                   bot_breakdown, txs, consecutive_failures>>
    /\ UNCHANGED <<ex_handed, ex_simulated>>
    /\ UNCHANGED now
    /\ UNCHANGED notBot

\* a transaction sent for an opportunity
Tx(kind, dex, token) ==
    [kind |-> kind, opportunity_id |-> bot_opp.opportunity_id, dex |-> dex,
     token |-> token, sent_at |-> now]

Failed(error) ==
    /\ ex_result' = ExecutionResult("failed", bot_opp.opportunity_id, error)
    /\ bot_pc' = "record_trade"

\* approve_token for token_a on the buy router, then token_b on the sell
\* router: nothing is sent when the allowance suffices; a failed approval
\* raises, which execute_direct_arbitrage turns into FAILED
ApproveToken ==
    /\ bot_pc \in {"approve_a", "approve_b"}
    /\ \E outcome \in {"already_approved", "error_before_send", "confirmed",
                       "failed"} :
       LET tx == IF bot_pc = "approve_a"
                 THEN Tx("approve", bot_opp.buy_dex, bot_opp.token_a)
                 ELSE Tx("approve", bot_opp.sell_dex, bot_opp.token_b)
       IN  /\ txs' = IF outcome \in {"confirmed", "failed"}
                     THEN Append(txs, tx) ELSE txs
           /\ IF outcome \in {"already_approved", "confirmed"}
              THEN /\ bot_pc' = IF bot_pc = "approve_a" THEN "approve_b"
                                ELSE "simulate"
                   /\ UNCHANGED ex_result
              ELSE Failed("Approval failed")
    /\ UNCHANGED <<bot_mode, dry_run_mode, simulation_mode, bot_opp,
                   bot_breakdown, consecutive_failures>>
    /\ UNCHANGED <<ex_handed, ex_simulated>>
    /\ UNCHANGED now
    /\ UNCHANGED notBot

\* simulate_swap of the buy leg when SIMULATION_MODE is set
SimulateBuySwap ==
    /\ bot_pc = "simulate"
    /\ \E success \in BOOLEAN :
         IF simulation_mode /\ ~success
         THEN Failed("Buy simulation failed") /\ UNCHANGED ex_simulated
         ELSE /\ simulation_mode \/ success    \* one outcome when not run
              /\ bot_pc' = "buy"
              /\ ex_simulated' =
                   IF simulation_mode
                   THEN ex_simulated \cup {[dex |-> bot_opp.buy_dex,
                                            token |-> bot_opp.token_a]}
                   ELSE ex_simulated
              /\ UNCHANGED ex_result
    /\ UNCHANGED <<bot_mode, dry_run_mode, simulation_mode, bot_opp,
                   bot_breakdown, txs, consecutive_failures>>
    /\ UNCHANGED ex_handed
    /\ UNCHANGED now
    /\ UNCHANGED notBot

\* _execute_swap of the buy leg and the wait for its receipt
ExecuteBuySwap ==
    /\ bot_pc = "buy"
    /\ \E outcome \in {"error_before_send", "confirmed", "reverted",
                       "receipt_timeout"} :
         /\ txs' = IF outcome = "error_before_send" THEN txs
                   ELSE Append(txs, Tx("swap", bot_opp.buy_dex,
                                       bot_opp.token_a))
         /\ IF outcome = "confirmed"
            THEN bot_pc' = "sell" /\ UNCHANGED ex_result
            ELSE IF outcome = "reverted"
            THEN /\ ex_result' = ExecutionResult("reverted",
                                    bot_opp.opportunity_id,
                                    "Buy transaction reverted")
                 /\ bot_pc' = "record_trade"
            ELSE Failed("Buy swap failed")
    /\ UNCHANGED <<bot_mode, dry_run_mode, simulation_mode, bot_opp,
                   bot_breakdown, consecutive_failures>>
    /\ UNCHANGED <<ex_handed, ex_simulated>>
    /\ UNCHANGED now
    /\ UNCHANGED notBot

\* the balance read, _execute_swap of the sell leg and its receipt
ExecuteSellSwap ==
    /\ bot_pc = "sell"
    /\ \E outcome \in {"error_before_send", "confirmed", "reverted",
                       "receipt_timeout"} :
         /\ txs' = IF outcome = "error_before_send" THEN txs
                   ELSE Append(txs, Tx("swap", bot_opp.sell_dex,
                                       bot_opp.token_b))
         /\ ex_result' =
              IF outcome = "confirmed"
              THEN ExecutionResult("success", bot_opp.opportunity_id, "")
              ELSE IF outcome = "reverted"
              THEN ExecutionResult("reverted", bot_opp.opportunity_id,
                                   "Sell transaction reverted")
              ELSE ExecutionResult("failed", bot_opp.opportunity_id,
                                   "Sell swap failed")
    /\ bot_pc' = "record_trade"
    /\ UNCHANGED <<bot_mode, dry_run_mode, simulation_mode, bot_opp,
                   bot_breakdown, consecutive_failures>>
    /\ UNCHANGED <<ex_handed, ex_simulated>>
    /\ UNCHANGED now
    /\ UNCHANGED notBot

\* stats.record_trade(success) at the end of the execute branch
BotRecordTrade ==
    /\ bot_pc = "record_trade"
    /\ consecutive_failures' =
         IF ex_result # NONE /\ ex_result.status = "success" THEN 0
         ELSE consecutive_failures + 1
    /\ bot_pc' = "end_scan"
    /\ UNCHANGED <<bot_mode, dry_run_mode, simulation_mode, bot_opp,
                   bot_breakdown, ex_result, txs>>
    /\ UNCHANGED <<ex_handed, ex_simulated>>
    /\ UNCHANGED now
    /\ UNCHANGED notBot

\* fault injection for C30: the loop goes on without the breaker
BotEndOfScan_no_pause ==
    /\ bot_pc = "end_scan"
    /\ consecutive_failures' = consecutive_failures
    /\ bot_pc' = "scan"
    /\ UNCHANGED <<bot_mode, dry_run_mode, simulation_mode, bot_opp,
                   bot_breakdown, ex_result, txs>>
    /\ UNCHANGED <<ex_handed, ex_simulated>>
    /\ UNCHANGED now
    /\ UNCHANGED notBot

\* run: the circuit breaker after the scan, then the sleep before the next
BotEndOfScan ==
    /\ bot_pc = "end_scan"
    /\ consecutive_failures' =
         IF consecutive_failures >= MAX_CONSECUTIVE_FAILURES THEN 0
         ELSE consecutive_failures
    /\ bot_pc' = "scan"
    /\ UNCHANGED <<bot_mode, dry_run_mode, simulation_mode, bot_opp,
                   bot_breakdown, ex_result, txs>>
    /\ UNCHANGED <<ex_handed, ex_simulated>>
    /\ UNCHANGED now
    /\ UNCHANGED notBot

\* run: check_balance raises inside execute_safe_trade; nothing catches it
\* before the loop's except, which sleeps and goes on to the next scan
BotLoopError ==
    /\ bot_pc = "execute_opportunity"
    /\ bot_mode = "execute"
    /\ bot_pc' = "scan"
    /\ UNCHANGED <<bot_mode, dry_run_mode, simulation_mode, bot_opp,
                   bot_breakdown, ex_result, txs, consecutive_failures>>
    /\ UNCHANGED <<ex_handed, ex_simulated>>
    /\ UNCHANGED now
    /\ UNCHANGED notBot

\* time passes: between any two steps, and inside the waits of a step
\* (receipts, RPC calls, the sleep between scans)
Tick ==
    /\ now < MaxClock
    /\ now' = now + 1
    /\ UNCHANGED <<bot_mode, dry_run_mode, simulation_mode, bot_pc, bot_opp,
                   bot_breakdown, ex_result, txs, consecutive_failures,
                   ex_handed, ex_simulated>>
    /\ UNCHANGED notBot

BotNext ==
    \/ Tick
    \/ BotRunSingleScan
    \/ BotEvaluateOpportunity
    \/ BotExecuteOpportunity
    \/ ExecuteDirectArbitrage
    \/ ApproveToken
    \/ SimulateBuySwap
    \/ ExecuteBuySwap
    \/ ExecuteSellSwap
    \/ BotRecordTrade
    \/ BotLoopError
    \/ BotEndOfScan

BotInit ==
    /\ GuardInit /\ AggInit /\ ScanInit /\ BotConfigured /\ TriInit /\ ParInit
    /\ ProfitIdle
    /\ OracleIdle
    /\ ThreadIdle

BotSpec == BotInit /\ [][BotNext]_vars

-----------------------------------------------------------------------------
(* Properties of the bot (BotSpec) *)

\* the guard chain has returned an approved Decision
ApprovedByGuardChain ==
    /\ ev_pc = "returned"
    /\ decision # NONE
    /\ decision.allowed

\* C1: no trade executes without passing all guards: a swap or approval
\* transaction for an opportunity is sent only after evaluate_trade has
\* returned an approved Decision (allowed = True) for that candidate.
C1_TxOnlyAfterApprovedDecision == txs # <<>> => ApprovedByGuardChain

\* C16: stale opportunities are never acted on: every transaction of the
\* executor (approval, buy swap, sell swap) is sent at a time that is not
\* after the opportunity's expires_at, also when time passes during the
\* steps that follow the expiry check.
C16_NoTxAfterExpiry ==
    \A i \in 1..Len(txs) : txs[i].sent_at <= bot_opp.expires_at

Clock == 0..MaxClock

\* what is_expired answers over the life of the opportunity the bot holds
ExpiryAnswers ==
    bot_opp # NONE =>
      /\ ~is_expired(bot_opp, bot_opp.detected_at)
      /\ \A t \in Clock :
           /\ (bot_opp.detected_at <= t /\ t <= bot_opp.expires_at) =>
                ~is_expired(bot_opp, t)
           /\ t > bot_opp.expires_at => is_expired(bot_opp, t)

\* a step in the life of one opportunity: the answer depends on the clock
\* alone, and stays true once it is true
ExpiryStep ==
    /\ (bot_opp' # bot_opp /\ bot_opp' # NONE) => ~is_expired(bot_opp', now')
    /\ (bot_opp # NONE /\ bot_opp' = bot_opp) =>
         /\ now' = now => (is_expired(bot_opp', now') <=> is_expired(bot_opp, now))
         /\ is_expired(bot_opp, now) => is_expired(bot_opp', now')
    /\ (bot_pc = "execute_direct" /\ bot_pc' # bot_pc) =>
         bot_opp' = bot_opp /\ now' = now

\* C17: is_expired() is false at creation and at every time up to and
\* including expires_at, true at every time strictly after it; calling it
\* changes nothing, and once true it stays true as the clock advances.
C17_Expiry == []ExpiryAnswers /\ [][ExpiryStep]_vars

\* C17 witness: the executor asked is_expired after the TTL had run out
\* and skipped the opportunity
C17_Witness ==
    /\ bot_opp # NONE
    /\ now = bot_opp.expires_at + 1
    /\ ex_result # NONE
    /\ ex_result.error = "Opportunity expired"

\* C25: a transaction is sent only when the bot mode is EXECUTE and
\* DRY_RUN_MODE is False; in SCAN_ONLY and SIMULATE modes, and whenever
\* DRY_RUN_MODE is True, no approval or swap is sent and an execution, if
\* there is one, reports SKIPPED.
C25_ObservationModesSafe ==
    (bot_mode # "execute" \/ dry_run_mode) =>
      /\ txs = <<>>
      /\ ex_result = NONE \/ ex_result.status = "skipped"

\* the engine was reached in EXECUTE mode with DRY_RUN_MODE on and skipped
C25_Witness ==
    /\ bot_mode = "execute"
    /\ dry_run_mode
    /\ ex_result # NONE
    /\ ex_result.error = "Dry run mode enabled"
    /\ txs = <<>>

\* C26: execute_safe_trade never hands the engine a trade whose amount_in
\* exceeds max_capital_pct percent (80) of the token_a balance it read.
C26_WithinAvailableCapital ==
    ex_handed # NONE => ex_handed.amount_in <= ex_handed.max_trade

\* C27: with SIMULATION_MODE on, every swap transaction sent (buy and sell)
\* was preceded by a successful simulation of that same swap.
C27_SimulationPrecedesSwap ==
    simulation_mode =>
      \A i \in 1..Len(txs) :
        txs[i].kind = "swap" =>
          [dex |-> txs[i].dex, token |-> txs[i].token] \in ex_simulated

\* the order of the steps within one scan cycle
CycleRank(pc) ==
    CASE pc = "scan" -> 0
      [] pc = "evaluate" -> 1
      [] pc = "execute_opportunity" -> 2
      [] pc = "execute_direct" -> 3
      [] pc = "approve_a" -> 4
      [] pc = "approve_b" -> 5
      [] pc = "simulate" -> 6
      [] pc = "buy" -> 7
      [] pc = "sell" -> 8
      [] pc = "record_trade" -> 9
      [] pc = "end_scan" -> 10

\* the counter stays within the limit and is below it when a scan starts
BreakerState ==
    /\ consecutive_failures \in 0..MAX_CONSECUTIVE_FAILURES
    /\ bot_pc = "scan" => consecutive_failures < MAX_CONSECUTIVE_FAILURES

\* the counter moves only when a trade is recorded (to 0 on success, up by
\* one otherwise) and at the breaker (to 0 once the limit is reached); a
\* cycle passes the recording step at most once
BreakerStep ==
    /\ (bot_pc = "record_trade" /\ bot_pc' # bot_pc) =>
         /\ bot_pc' = "end_scan"
         /\ consecutive_failures' =
              IF ex_result # NONE /\ ex_result.status = "success" THEN 0
              ELSE consecutive_failures + 1
    /\ (bot_pc = "end_scan" /\ bot_pc' # bot_pc) =>
         /\ bot_pc' = "scan"
         /\ consecutive_failures' =
              IF consecutive_failures = MAX_CONSECUTIVE_FAILURES THEN 0
              ELSE consecutive_failures
    /\ bot_pc \notin {"record_trade", "end_scan"} =>
         consecutive_failures' = consecutive_failures
    /\ bot_pc' # bot_pc =>
         bot_pc' = "scan" \/ CycleRank(bot_pc') > CycleRank(bot_pc)

\* C30: the consecutive-failure counter never exceeds
\* MAX_CONSECUTIVE_FAILURES; a successful trade resets it to 0; when it
\* reaches the limit the loop pauses and resets it to 0 before the next
\* scan starts; at most one trade is recorded per scan cycle.
C30_CircuitBreaker == []BreakerState /\ [][BreakerStep]_vars

\* the counter has reached the limit and the breaker is about to act
C30_Witness ==
    /\ bot_pc = "end_scan"
    /\ consecutive_failures = MAX_CONSECUTIVE_FAILURES

====
